---------------------------- MODULE Spec2Model ----------------------------
(***************************************************************************)
(* Model of the CAD grading engine of MecaFlow-Learn.                      *)
(*                                                                         *)
(*   services/occComparison.py     compare_models (part and assembly)      *)
(*   services/comparisonService.py compare_step_models, compare_assemblies *)
(*   services/occCompareDXF.py     compare_dxf_drawings                    *)
(*   main.py                       compare_cad                             *)
(*                                                                         *)
(* Numbers.  The geometry kernels return floating point values which the   *)
(* code rounds to 3 decimals (round(float(x), 3)).  A kernel value is an   *)
(* integer count of 1e-4 units (995.0004 is 9950004) and a rounded         *)
(* property an integer count of 1e-3 units (995.0 is 995000).  Scores are  *)
(* exact rationals <<n, d>> in lowest terms with d > 0; round(x, 1) is     *)
(* round-half-even on the exact value.  A tolerance is a rational too      *)
(* (1e-3 is <<1, 1000>>).                                                  *)
(***************************************************************************)
EXTENDS Integers, Sequences, FiniteSets, TLC

VARIABLES
    engine,   \* which kernel the two documents belong to: "occ", "freecad", "dxf", "pct"
    sub,      \* the submitted document as the kernel sees it
    ref,      \* the reference document as the kernel sees it
    tol,      \* the tolerance argument
    pc,       \* "idle", or the name of the operation that has returned
    out       \* what the operation returned (or the exception it raised)

vars == <<engine, sub, ref, tol, pc, out>>

-----------------------------------------------------------------------------
(* Arithmetic *)

Abs(x) == IF x < 0 THEN -x ELSE x

Max(a, b) == IF a >= b THEN a ELSE b

Min(a, b) == IF a <= b THEN a ELSE b

RECURSIVE GCD(_, _)
GCD(a, b) == IF b = 0 THEN a ELSE GCD(b, a % b)

\* the rational n/d (d > 0) in lowest terms
Rat(n, d) == LET g == GCD(Abs(n), d) IN <<n \div g, d \div g>>

RInt(n) == <<n, 1>>

RAdd(a, b) == Rat(a[1] * b[2] + b[1] * a[2], a[2] * b[2])

RSub(a, b) == Rat(a[1] * b[2] - b[1] * a[2], a[2] * b[2])

RMul(a, b) == Rat(a[1] * b[1], a[2] * b[2])

RDivInt(a, k) == Rat(a[1], a[2] * k)

RLeq(a, b) == a[1] * b[2] <= b[1] * a[2]

RLt(a, b) == a[1] * b[2] < b[1] * a[2]

RMin(a, b) == IF RLeq(a, b) THEN a ELSE b

\* n/d (n >= 0, d > 0) rounded to the nearest integer, ties to even
RoundHalfEvenNat(n, d) ==
    LET q == n \div d
        r == n % d
    IN  IF 2 * r < d THEN q
        ELSE IF 2 * r > d THEN q + 1
        ELSE IF q % 2 = 0 THEN q ELSE q + 1

RoundHalfEven(n, d) == IF n < 0 THEN -RoundHalfEvenNat(-n, d) ELSE RoundHalfEvenNat(n, d)

\* round(x, 1) of a rational x
Round1(x) == Rat(RoundHalfEven(10 * x[1], x[2]), 10)

\* round(float(v), 3) of a kernel value v (1e-4 units), in 1e-3 units
Round3(v) == RoundHalfEven(v, 10)

Round3Tuple(t) == [i \in DOMAIN t |-> Round3(t[i])]

RECURSIVE SumSeq(_)
SumSeq(s) == IF s = <<>> THEN 0 ELSE Head(s) + SumSeq(Tail(s))

RECURSIVE RSumSeq(_)
RSumSeq(s) == IF s = <<>> THEN RInt(0) ELSE RAdd(Head(s), RSumSeq(Tail(s)))

\* a Python return value, or the exception that left the function
Return(v) == [raised |-> FALSE, value |-> v]

Raise(e) == [raised |-> TRUE, error |-> e]

-----------------------------------------------------------------------------
(* The OpenCascade kernel as occComparison.py sees it.                     *)
(*                                                                         *)
(* A STEP document is [readable, solids, shells, faces]: whether ReadFile  *)
(* returns IFSelect_RetDone, and what TopExp_Explorer enumerates for       *)
(* TopAbs_SOLID, TopAbs_SHELL and TopAbs_FACE, in the kernel's order.  A   *)
(* body is what GProp_GProps, Bnd_Box and the explorers answer for one     *)
(* sub-shape: dims (bounding box extents), mass (volume of a solid, area   *)
(* of a shell or face), com, topo (face, edge and vertex counts), inertia  *)
(* (eigenvalues of the inertia matrix of a solid, its diagonal for a shell)*)
(* and fault (the kernel or numpy raises while the properties are read).   *)

Topo(f, e, v) == [faces |-> f, edges |-> e, vertices |-> v]

Body(d, m, c, t, i) == [dims |-> d, mass |-> m, com |-> c, topo |-> t, inertia |-> i, fault |-> FALSE]

StepDoc(so, sh, fa) == [readable |-> TRUE, solids |-> so, shells |-> sh, faces |-> fa]

\* src/services/occComparison.py:16-22
read_step_file(filename) ==
    IF ~filename.readable THEN Raise("Error reading STEP file") ELSE Return(filename)

get_solids_from_shape(shape) == shape.solids

get_shells_from_shape(shape) == shape.shells

get_faces_from_shape(shape) == shape.faces

AbsTuple(t) == [i \in DOMAIN t |-> Abs(t[i])]

\* src/services/occComparison.py:60-110
get_solid_properties(solid) ==
    IF solid.fault THEN Raise("kernel error")
    ELSE Return([volume |-> Round3(solid.mass),
                 center_of_mass |-> Round3Tuple(solid.com),
                 dimensions |-> Round3Tuple(solid.dims),
                 topology |-> solid.topo,
                 principal_moments |-> Round3Tuple(AbsTuple(solid.inertia))])

\* src/services/occComparison.py:112-145
get_shell_properties(shell) ==
    IF shell.fault THEN Raise("kernel error")
    ELSE Return([surface_area |-> Round3(shell.mass),
                 center_of_mass |-> Round3Tuple(shell.com),
                 dimensions |-> Round3Tuple(shell.dims),
                 topology |-> shell.topo,
                 type |-> IF shell.topo.faces > 1 THEN "shell" ELSE "surface",
                 principal_moments |-> Round3Tuple(shell.inertia)])

get_face_properties(face) == get_shell_properties(face)

\* Bnd_Box over several shells: the extents of the union (the shells are
\* taken to share their minimum corner)
UnionDims(shells) ==
    [a \in 1..3 |-> LET m[i \in 0..Len(shells)] ==
                            IF i = 0 THEN 0 ELSE Max(m[i - 1], shells[i].dims[a])
                    IN  m[Len(shells)]]

\* src/services/occComparison.py:163-199
multi_shell_properties(shells) ==
    IF \E i \in 1..Len(shells) : shells[i].fault THEN Raise("kernel error")
    ELSE LET total_area == SumSeq([i \in 1..Len(shells) |-> shells[i].mass])
             total_faces == SumSeq([i \in 1..Len(shells) |-> shells[i].topo.faces])
             total_edges == SumSeq([i \in 1..Len(shells) |-> shells[i].topo.edges])
             total_vertices == SumSeq([i \in 1..Len(shells) |-> shells[i].topo.vertices])
         IN  Return([surface_area |-> Round3(total_area),
                     center_of_mass |-> Round3Tuple(shells[Len(shells)].com),
                     dimensions |-> Round3Tuple(UnionDims(shells)),
                     topology |-> Topo(total_faces, total_edges, total_vertices),
                     type |-> "shell",
                     principal_moments |-> <<Round3(total_area), Round3(total_area), Round3(total_area)>>])

\* mutant: the shells are looked at before the solids
get_shape_properties_shells_first(shape) ==
    LET solids == get_solids_from_shape(shape)
        shells == get_shells_from_shape(shape)
        faces == get_faces_from_shape(shape)
    IN  IF shells # <<>>
        THEN IF Len(shells) = 1 THEN get_shell_properties(shells[1])
             ELSE multi_shell_properties(shells)
        ELSE IF solids # <<>> THEN get_solid_properties(solids[1])
        ELSE IF faces # <<>> THEN get_face_properties(faces[1])
        ELSE Raise("No valid geometry (solid, shell, or face) found in shape.")

\* src/services/occComparison.py:150-206
get_shape_properties(shape) ==
    LET solids == get_solids_from_shape(shape)
        shells == get_shells_from_shape(shape)
        faces == get_faces_from_shape(shape)
    IN  IF solids # <<>> THEN get_solid_properties(solids[1])
        ELSE IF shells # <<>>
             THEN IF Len(shells) = 1 THEN get_shell_properties(shells[1])
                  ELSE multi_shell_properties(shells)
        ELSE IF faces # <<>> THEN get_face_properties(faces[1])
        ELSE Raise("No valid geometry (solid, shell, or face) found in shape.")

-----------------------------------------------------------------------------
(* The scoring primitives (values in 1e-3 units, t a rational tolerance)   *)

\* mutant: the min(100, ...) clamp is missing
pct_noclamp(s, r) ==
    RSub(RInt(100), Rat(100 * Abs(s - r), IF Abs(r) > 0 THEN Abs(r) ELSE 1000))

\* mutant: the difference is taken relative to the submitted value
pct_rel_submitted(s, r) ==
    RSub(RInt(100),
         RMin(RInt(100), Rat(100 * Abs(s - r), IF Abs(s) > 0 THEN Abs(s) ELSE 1000)))

\* mutant: the abs() around the difference is missing
pct_signed(s, r) ==
    RSub(RInt(100),
         RMin(RInt(100), Rat(100 * (s - r), IF Abs(r) > 0 THEN Abs(r) ELSE 1000)))

\* 100 - min(100, 100 * abs(s - r) / (abs(r) if abs(r) > 1e-6 else 1))
\* src/services/occComparison.py:288, src/services/comparisonService.py:143
pct(s, r) ==
    RSub(RInt(100),
         RMin(RInt(100), Rat(100 * Abs(s - r), IF Abs(r) > 0 THEN Abs(r) ELSE 1000)))

\* abs(s - r) <= tol * max(abs(r), 1); the left side is an integer, so the
\* bound may be rounded down
ok(s, r, t) == Abs(s - r) <= (t[1] * Max(Abs(r), 1000)) \div t[2]

all_ok(ss, rs, t) == \A i \in 1..Min(Len(ss), Len(rs)) : ok(ss[i], rs[i], t)

pct_list(ss, rs) == [i \in 1..Min(Len(ss), Len(rs)) |-> pct(ss[i], rs[i])]

topo_diff(a, b) ==
    Abs(a.faces - b.faces) + Abs(a.edges - b.edges) + Abs(a.vertices - b.vertices)

\* the success threshold of part mode, by tolerance
success_threshold(t) ==
    IF RLeq(<<1, 20>>, t) THEN 70
    ELSE IF RLeq(<<1, 100>>, t) THEN 75
    ELSE 80

\* mutant: the x1.1 bonus is not capped at 100
measure_feature_nocap(sub_props, ref_props, t) ==
    IF "volume" \in DOMAIN sub_props /\ "volume" \in DOMAIN ref_props
    THEN Return([key |-> "volume",
                 ok |-> ok(sub_props.volume, ref_props.volume, t),
                 score |-> pct(sub_props.volume, ref_props.volume),
                 measure_score |-> pct(sub_props.volume, ref_props.volume)])
    ELSE IF "surface_area" \notin DOMAIN sub_props \/ "surface_area" \notin DOMAIN ref_props
    THEN Raise("KeyError: 'surface_area'")
    ELSE LET shell_tol == RMul(t, <<3, 2>>)
             raw_score == pct(sub_props.surface_area, ref_props.surface_area)
             measure_score ==
                 IF topo_diff(sub_props.topology, ref_props.topology) <= 6
                 THEN RMul(raw_score, <<11, 10>>)
                 ELSE raw_score
         IN  Return([key |-> "surface_area",
                     ok |-> ok(sub_props.surface_area, ref_props.surface_area, shell_tol),
                     score |-> Round1(measure_score),
                     measure_score |-> measure_score])

\* mutant: the x1.1 bonus is given whatever the topology difference
measure_feature_anybonus(sub_props, ref_props, t) ==
    IF "volume" \in DOMAIN sub_props /\ "volume" \in DOMAIN ref_props
    THEN Return([key |-> "volume",
                 ok |-> ok(sub_props.volume, ref_props.volume, t),
                 score |-> pct(sub_props.volume, ref_props.volume),
                 measure_score |-> pct(sub_props.volume, ref_props.volume)])
    ELSE IF "surface_area" \notin DOMAIN sub_props \/ "surface_area" \notin DOMAIN ref_props
    THEN Raise("KeyError: 'surface_area'")
    ELSE LET shell_tol == RMul(t, <<3, 2>>)
             raw_score == pct(sub_props.surface_area, ref_props.surface_area)
             measure_score == RMin(RInt(100), RMul(raw_score, <<11, 10>>))
         IN  Return([key |-> "surface_area",
                     ok |-> ok(sub_props.surface_area, ref_props.surface_area, shell_tol),
                     score |-> Round1(measure_score),
                     measure_score |-> measure_score])

\* src/services/occComparison.py:295-319
\* volume-or-area feature of part mode; raises KeyError when exactly one
\* side has no "volume" key (the other branch reads "surface_area" of both)
measure_feature(sub_props, ref_props, t) ==
    IF "volume" \in DOMAIN sub_props /\ "volume" \in DOMAIN ref_props
    THEN Return([key |-> "volume",
                 ok |-> ok(sub_props.volume, ref_props.volume, t),
                 score |-> pct(sub_props.volume, ref_props.volume),
                 measure_score |-> pct(sub_props.volume, ref_props.volume)])
    ELSE IF "surface_area" \notin DOMAIN sub_props \/ "surface_area" \notin DOMAIN ref_props
    THEN Raise("KeyError: 'surface_area'")
    ELSE LET shell_tol == RMul(t, <<3, 2>>)
             raw_score == pct(sub_props.surface_area, ref_props.surface_area)
             measure_score ==
                 IF topo_diff(sub_props.topology, ref_props.topology) <= 6
                 THEN RMin(RInt(100), RMul(raw_score, <<11, 10>>))
                 ELSE raw_score
         IN  Return([key |-> "surface_area",
                     ok |-> ok(sub_props.surface_area, ref_props.surface_area, shell_tol),
                     score |-> Round1(measure_score),
                     measure_score |-> measure_score])

\* mutant: the moments are scored by their mean percentage, as
\* compare_step_models does
moments_feature_pct(sub_props, ref_props, t) ==
    LET pm_pct == pct_list(sub_props.principal_moments, ref_props.principal_moments)
    IN  [ok |-> all_ok(sub_props.principal_moments, ref_props.principal_moments, t),
         score |-> RDivInt(RSumSeq(pm_pct), Len(pm_pct))]

\* src/services/occComparison.py:328-334
moments_feature(sub_props, ref_props, t) ==
    LET pm_ok == all_ok(sub_props.principal_moments, ref_props.principal_moments, t)
    IN  [ok |-> pm_ok, score |-> RInt(IF pm_ok THEN 100 ELSE 0)]

\* src/services/occComparison.py:277-348
compare_part(sub_shape, ref_shape, t) ==
    LET sub_p == get_shape_properties(sub_shape)
        ref_p == get_shape_properties(ref_shape)
    IN  IF sub_p.raised THEN sub_p
        ELSE IF ref_p.raised THEN ref_p
        ELSE
        LET sub_props == sub_p.value
            ref_props == ref_p.value
            dims_pct == pct_list(sub_props.dimensions, ref_props.dimensions)
            dims_score == RDivInt(RSumSeq(dims_pct), Len(dims_pct))
            measure == measure_feature(sub_props, ref_props, t)
        IN  IF measure.raised THEN measure
            ELSE
            LET topo_ok == sub_props.topology = ref_props.topology
                topo_score == IF topo_ok THEN 100 ELSE 0
                pm == moments_feature(sub_props, ref_props, t)
                score == RAdd(RAdd(dims_score, measure.value.measure_score),
                              RAdd(RInt(topo_score), pm.score))
                total == 4
                global_score == Round1(RDivInt(score, total))
            IN  Return([mode |-> "part",
                        dimensions |-> [ok |-> all_ok(sub_props.dimensions, ref_props.dimensions, t),
                                        score |-> dims_score],
                        measure |-> [key |-> measure.value.key,
                                     ok |-> measure.value.ok,
                                     score |-> measure.value.score],
                        topology |-> [ok |-> topo_ok, score |-> RInt(topo_score)],
                        principal_moments |-> pm,
                        measure_score |-> measure.value.measure_score,
                        score |-> score,
                        total |-> total,
                        global_score |-> global_score,
                        success |-> RLeq(RInt(success_threshold(t)), global_score)])

\* one record of components_match
component_match(i, sub_props, ref_props, t) ==
    [index |-> i - 1,
     volume_ok |-> ok(sub_props.volume, ref_props.volume, t),
     volume_score |-> Round1(pct(sub_props.volume, ref_props.volume)),
     center_of_mass_ok |-> all_ok(sub_props.center_of_mass, ref_props.center_of_mass, t),
     center_of_mass_sub |-> sub_props.center_of_mass,
     center_of_mass_ref |-> ref_props.center_of_mass,
     topology_match |-> sub_props.topology = ref_props.topology]

\* mutant: success does not look at the two solid counts
compare_assembly_nocount(sub_solids, ref_solids, t) ==
    LET n == Min(Len(sub_solids), Len(ref_solids))
    IN  IF \E i \in 1..n : sub_solids[i].fault \/ ref_solids[i].fault
        THEN Raise("kernel error")
        ELSE
        LET matches == [i \in 1..n |->
                           component_match(i, get_solid_properties(sub_solids[i]).value,
                                           get_solid_properties(ref_solids[i]).value, t)]
            n_ok == Cardinality({i \in 1..n : matches[i].volume_ok
                                               /\ matches[i].center_of_mass_ok
                                               /\ matches[i].topology_match})
            global_score == Round1(Rat(n_ok * 100, Max(Len(matches), 1)))
        IN  Return([mode |-> "assembly",
                    num_components |-> [submitted |-> Len(sub_solids),
                                        reference |-> Len(ref_solids),
                                        ok |-> Len(sub_solids) = Len(ref_solids)],
                    components_match |-> matches,
                    global_score |-> global_score,
                    success |-> RLeq(RInt(80), global_score)])

\* mutant: the i-th submitted solid is paired with the i-th reference solid
\* counted from the end
compare_assembly_reversed(sub_solids, ref_solids, t) ==
    LET n == Min(Len(sub_solids), Len(ref_solids))
    IN  IF \E i \in 1..n : sub_solids[i].fault \/ ref_solids[i].fault
        THEN Raise("kernel error")
        ELSE
        LET matches == [i \in 1..n |->
                           component_match(i, get_solid_properties(sub_solids[i]).value,
                                           get_solid_properties(ref_solids[n + 1 - i]).value, t)]
            n_ok == Cardinality({i \in 1..n : matches[i].volume_ok
                                               /\ matches[i].center_of_mass_ok
                                               /\ matches[i].topology_match})
            global_score == Round1(Rat(n_ok * 100, Max(Len(matches), 1)))
        IN  Return([mode |-> "assembly",
                    num_components |-> [submitted |-> Len(sub_solids),
                                        reference |-> Len(ref_solids),
                                        ok |-> Len(sub_solids) = Len(ref_solids)],
                    components_match |-> matches,
                    global_score |-> global_score,
                    success |-> RLeq(RInt(80), global_score)
                                /\ Len(sub_solids) = Len(ref_solids)])

\* src/services/occComparison.py:232-272
compare_assembly(sub_solids, ref_solids, t) ==
    LET n == Min(Len(sub_solids), Len(ref_solids))
    IN  IF \E i \in 1..n : sub_solids[i].fault \/ ref_solids[i].fault
        THEN Raise("kernel error")
        ELSE
        LET matches == [i \in 1..n |->
                           component_match(i, get_solid_properties(sub_solids[i]).value,
                                           get_solid_properties(ref_solids[i]).value, t)]
            n_ok == Cardinality({i \in 1..n : matches[i].volume_ok
                                               /\ matches[i].center_of_mass_ok
                                               /\ matches[i].topology_match})
            global_score == Round1(Rat(n_ok * 100, Max(Len(matches), 1)))
        IN  Return([mode |-> "assembly",
                    num_components |-> [submitted |-> Len(sub_solids),
                                        reference |-> Len(ref_solids),
                                        ok |-> Len(sub_solids) = Len(ref_solids)],
                    components_match |-> matches,
                    global_score |-> global_score,
                    success |-> RLeq(RInt(80), global_score)
                                /\ Len(sub_solids) = Len(ref_solids)])

\* src/services/occComparison.py:212-348
compare_models(submitted_path, reference_path, t) ==
    LET sub_shape == read_step_file(submitted_path)
        ref_shape == read_step_file(reference_path)
    IN  IF sub_shape.raised THEN sub_shape
        ELSE IF ref_shape.raised THEN ref_shape
        ELSE
        LET sub_solids == get_solids_from_shape(sub_shape.value)
            ref_solids == get_solids_from_shape(ref_shape.value)
        IN  IF Len(ref_solids) > 1 \/ Len(sub_solids) > 1
            THEN compare_assembly(sub_solids, ref_solids, t)
            ELSE compare_part(sub_shape.value, ref_shape.value, t)

-----------------------------------------------------------------------------
(* The FreeCAD kernel as comparisonService.py sees it.                     *)
(*                                                                         *)
(* A document is [readable, Volume, BoundBox, topo, Solids]: whether       *)
(* shape.read succeeds, shape.Volume, the three lengths of shape.BoundBox, *)
(* the lengths of shape.Faces, shape.Edges and shape.Vertexes, and for     *)
(* each element of shape.Solids its Volume, CenterOfMass, the eigenvalues  *)
(* of its MatrixOfInertia, topo (the lengths of its Faces, Edges and        *)
(* Vertexes), and fault (reading the matrix raises).                       *)

FcSolid(v, c, i) ==
    [Volume |-> v, CenterOfMass |-> c, inertia |-> i, topo |-> Topo(6, 12, 8), fault |-> FALSE]

FcDoc(v, b, t, so) == [readable |-> TRUE, Volume |-> v, BoundBox |-> b, topo |-> t, Solids |-> so]

RECURSIVE Flatten(_)
Flatten(ss) == IF ss = <<>> THEN <<>> ELSE Head(ss) \o Flatten(Tail(ss))

\* sorted(s, reverse=True)
RECURSIVE SortedDesc(_)
SortedDesc(s) ==
    IF s = <<>> THEN <<>>
    ELSE LET i == CHOOSE i \in 1..Len(s) : \A j \in 1..Len(s) : s[i] >= s[j]
         IN  <<s[i]>> \o SortedDesc(SubSeq(s, 1, i - 1) \o SubSeq(s, i + 1, Len(s)))

\* src/services/comparisonService.py:86-122
fc_principal_moments(shape) ==
    LET solids == shape.Solids
        good == SelectSeq(solids, LAMBDA s : ~s.fault)
        moments_list == [k \in 1..Len(good) |-> Round3Tuple(AbsTuple(good[k].inertia))]
        flat_sorted == SortedDesc(AbsTuple(Flatten(moments_list)))
    IN  IF solids = <<>> \/ moments_list = <<>> THEN <<>>
        ELSE SubSeq(flat_sorted, 1, Min(3, Len(flat_sorted)))

\* src/services/comparisonService.py:67-131
get_step_properties(file_path) ==
    IF ~file_path.readable THEN Raise("shape.read failed")
    ELSE Return([dimensions |-> Round3Tuple(file_path.BoundBox),
                 volume |-> Round3(file_path.Volume),
                 topology |-> file_path.topo,
                 principal_moments |-> fc_principal_moments(file_path)])

\* src/services/comparisonService.py:133-208
compare_step_models(submitted_path, reference_path, t) ==
    LET submitted == get_step_properties(submitted_path)
        reference == get_step_properties(reference_path)
    IN  IF submitted.raised THEN submitted
        ELSE IF reference.raised THEN reference
        ELSE
        LET dims_sub == submitted.value.dimensions
            dims_ref == reference.value.dimensions
            dims_pct == pct_list(dims_sub, dims_ref)
            dims_score == IF dims_pct # <<>> THEN RDivInt(RSumSeq(dims_pct), Len(dims_pct))
                          ELSE RInt(0)
            vol_sub == submitted.value.volume
            vol_ref == reference.value.volume
            vol_score == pct(vol_sub, vol_ref)
            pm_sub == submitted.value.principal_moments
            pm_ref == reference.value.principal_moments
            shell_only == (pm_sub = <<>> \/ pm_sub = <<0, 0, 0>>)
                          \/ (pm_ref = <<>> \/ pm_ref = <<0, 0, 0>>)
            pm_scored == ~shell_only /\ Len(pm_sub) = Len(pm_ref)
            pm_pct == pct_list(pm_sub, pm_ref)
            pm_score == IF pm_pct # <<>> THEN RDivInt(RSumSeq(pm_pct), Len(pm_pct))
                        ELSE RInt(0)
            topo_ok == submitted.value.topology = reference.value.topology
            topo_score == IF topo_ok THEN 100 ELSE 0
            score == RAdd(RAdd(dims_score, vol_score),
                          RAdd(IF pm_scored THEN pm_score ELSE RInt(0), RInt(topo_score)))
            total == IF pm_scored THEN 400 ELSE 300
            global_score == Round1(RMul(score, Rat(100, total)))
        IN  Return([submitted |-> submitted.value,
                    reference |-> reference.value,
                    feedback |->
                       [dimensions |-> [ok |-> all_ok(dims_sub, dims_ref, t),
                                        score |-> dims_score,
                                        pct |-> dims_pct],
                        volume |-> [ok |-> ok(vol_sub, vol_ref, t), score |-> vol_score],
                        principal_moments |->
                            IF pm_scored
                            THEN [ok |-> IF all_ok(pm_sub, pm_ref, t) THEN "True" ELSE "False",
                                  score |-> pm_score]
                            ELSE [ok |-> "None", score |-> RInt(0)],
                        topology |-> [ok |-> topo_ok, score |-> RInt(topo_score)],
                        score |-> score,
                        total |-> total,
                        global_score |-> global_score,
                        success |-> RLeq(RInt(80), global_score)]])

\* src/services/comparisonService.py:1-15
list_assembly_components(file_path) ==
    IF ~file_path.readable THEN Raise("shape.read failed")
    ELSE Return([k \in 1..Len(file_path.Solids) |->
                    [center_of_mass |-> Round3Tuple(file_path.Solids[k].CenterOfMass),
                     volume |-> Round3(file_path.Solids[k].Volume)]])

\* src/services/comparisonService.py:17-49
compare_assemblies(submitted_path, reference_path, t) ==
    LET sub_c == list_assembly_components(submitted_path)
        ref_c == list_assembly_components(reference_path)
    IN  IF sub_c.raised THEN sub_c
        ELSE IF ref_c.raised THEN ref_c
        ELSE
        LET sub_comps == sub_c.value
            ref_comps == ref_c.value
            n_sub == Len(sub_comps)
            n_ref == Len(ref_comps)
            matches == [i \in 1..Min(n_sub, n_ref) |->
                          [index |-> i - 1,
                           volume_ok |-> ok(sub_comps[i].volume, ref_comps[i].volume, t),
                           volume_score |-> pct(sub_comps[i].volume, ref_comps[i].volume),
                           center_of_mass_ok |-> all_ok(sub_comps[i].center_of_mass,
                                                        ref_comps[i].center_of_mass, t),
                           center_of_mass_sub |-> sub_comps[i].center_of_mass,
                           center_of_mass_ref |-> ref_comps[i].center_of_mass]]
            n_ok == Cardinality({i \in 1..Len(matches) :
                                    matches[i].volume_ok /\ matches[i].center_of_mass_ok})
            global_score == Round1(Rat(n_ok * 100, Max(Len(matches), 1)))
        IN  Return([num_components |-> [submitted |-> n_sub,
                                        reference |-> n_ref,
                                        ok |-> n_sub = n_ref],
                    components_match |-> matches,
                    global_score |-> global_score,
                    success |-> RLeq(RInt(80), global_score) /\ n_sub = n_ref])

-----------------------------------------------------------------------------
(* The drawing engine, occCompareDXF.py.                                   *)
(*                                                                         *)
(* A DXF document is [exists, parsable, entities]: os.path.exists, whether *)
(* ezdxf.readfile succeeds, and the entities of the modelspace in order.   *)
(* Coordinates, radii and the tolerance are integer counts of 1e-4 units;  *)
(* only X and Y are kept, the comparison reads nothing else.  Arc angles   *)
(* are multiples of 90 degrees.  An OpenCascade shape is [bbox, edges]:    *)
(* the X/Y corners <<xmin, ymin, xmax, ymax>> of its Bnd_Box and the       *)
(* number of edges TopExp_Explorer finds in it.                            *)

Line(a, b) == [type |-> "LINE", start |-> a, end |-> b]

Circle(c, r) == [type |-> "CIRCLE", center |-> c, radius |-> r]

Arc(c, r, a0, a1) == [type |-> "ARC", center |-> c, radius |-> r, start_angle |-> a0, end_angle |-> a1]

LwPolyline(pts) == [type |-> "LWPOLYLINE", points |-> pts]

Text == [type |-> "TEXT"]

CountedTypes == {"LINE", "CIRCLE", "ARC", "POLYLINE", "LWPOLYLINE", "DIMENSION", "TEXT", "MTEXT"}

OfType(entities, types) == SelectSeq(entities, LAMBDA e : e.type \in types)

\* mutant: a file ezdxf cannot parse is read as an empty drawing
analyze_dxf_lenient(path) ==
    IF ~path.exists THEN Raise("Le fichier DXF n'existe pas")
    ELSE Return([counts |-> [ty \in CountedTypes |-> Len(OfType(path.entities, {ty}))],
                 geometries |-> [LINES |-> OfType(path.entities, {"LINE"}),
                                 CIRCLES |-> OfType(path.entities, {"CIRCLE"}),
                                 ARCS |-> OfType(path.entities, {"ARC"}),
                                 POLYLINES |-> [k \in 1..Len(OfType(path.entities, {"POLYLINE", "LWPOLYLINE"})) |->
                                                   OfType(path.entities, {"POLYLINE", "LWPOLYLINE"})[k].points]]])

\* src/services/occCompareDXF.py:19-87
analyze_dxf(path) ==
    IF ~path.exists THEN Raise("Le fichier DXF n'existe pas")
    ELSE IF ~path.parsable THEN Raise("Erreur lors de la lecture du fichier DXF")
    ELSE Return([counts |-> [ty \in CountedTypes |-> Len(OfType(path.entities, {ty}))],
                 geometries |-> [LINES |-> OfType(path.entities, {"LINE"}),
                                 CIRCLES |-> OfType(path.entities, {"CIRCLE"}),
                                 ARCS |-> OfType(path.entities, {"ARC"}),
                                 POLYLINES |-> [k \in 1..Len(OfType(path.entities, {"POLYLINE", "LWPOLYLINE"})) |->
                                                   OfType(path.entities, {"POLYLINE", "LWPOLYLINE"})[k].points]]])

\* the Bnd_Box of a set of points
BoxOf(pts) ==
    LET xs == {q[1] : q \in pts}
        ys == {q[2] : q \in pts}
        lo(S) == CHOOSE v \in S : \A w \in S : v <= w
        hi(S) == CHOOSE v \in S : \A w \in S : v >= w
    IN  <<lo(xs), lo(ys), hi(xs), hi(ys)>>

Cos90(a) == CASE a % 360 = 0 -> 1 [] a % 360 = 90 -> 0 [] a % 360 = 180 -> -1 [] OTHER -> 0

Sin90(a) == CASE a % 360 = 0 -> 0 [] a % 360 = 90 -> 1 [] a % 360 = 180 -> 0 [] OTHER -> -1

\* BRepBuilderAPI_MakeEdge(start, end): no edge between coincident points
line_shape(a, b) ==
    IF a = b THEN Raise("StdFail_NotDone")
    ELSE Return([bbox |-> BoxOf({a, b}), edges |-> 1])

circle_shape(c) ==
    Return([bbox |-> <<c.center[1] - c.radius, c.center[2] - c.radius,
                       c.center[1] + c.radius, c.center[2] + c.radius>>,
            edges |-> 1])

\* the arc through the points at start_angle, (start_angle + end_angle) / 2
\* and end_angle: it sweeps the angles between the two, whatever their order
arc_shape(a) ==
    IF a.start_angle = a.end_angle THEN Raise("StdFail_NotDone")
    ELSE LET lo == Min(a.start_angle, a.end_angle)
             hi == Max(a.start_angle, a.end_angle)
             swept == {q \in {0, 90, 180, 270, 360} : lo <= q /\ q <= hi}
         IN  Return([bbox |-> BoxOf({<<a.center[1] + a.radius * Cos90(q),
                                      a.center[2] + a.radius * Sin90(q)>> : q \in swept}),
                     edges |-> 1])

polyline_shape(pts) ==
    IF \E i \in 1..(Len(pts) - 1) : pts[i] = pts[i + 1] THEN Raise("StdFail_NotDone")
    ELSE Return([bbox |-> BoxOf({pts[i] : i \in 1..Len(pts)}), edges |-> Len(pts) - 1])

\* src/services/occCompareDXF.py:89-154
create_occ_geometry(geometries) ==
    LET lines == [k \in 1..Len(geometries.LINES) |->
                     line_shape(geometries.LINES[k].start, geometries.LINES[k].end)]
        circles == [k \in 1..Len(geometries.CIRCLES) |-> circle_shape(geometries.CIRCLES[k])]
        arcs == [k \in 1..Len(geometries.ARCS) |-> arc_shape(geometries.ARCS[k])]
        kept == SelectSeq(geometries.POLYLINES, LAMBDA pl : Len(pl) >= 2)
        polylines == [k \in 1..Len(kept) |-> polyline_shape(kept[k])]
        built == lines \o circles \o arcs \o polylines
    IN  IF \E k \in 1..Len(built) : built[k].raised
        THEN Raise("StdFail_NotDone")
        ELSE Return([k \in 1..Len(built) |-> built[k].value])

\* mutant: a difference equal to the tolerance already rejects
compare_geometry_strict(shape1, shape2, tolerance) ==
    IF \/ Abs(shape1.bbox[1] - shape2.bbox[1]) >= tolerance
       \/ Abs(shape1.bbox[2] - shape2.bbox[2]) >= tolerance
       \/ Abs(shape1.bbox[3] - shape2.bbox[3]) >= tolerance
       \/ Abs(shape1.bbox[4] - shape2.bbox[4]) >= tolerance
    THEN FALSE
    ELSE shape1.edges = shape2.edges

\* mutant: the numbers of edges are not compared
compare_geometry_boxes(shape1, shape2, tolerance) ==
    IF \/ Abs(shape1.bbox[1] - shape2.bbox[1]) > tolerance
       \/ Abs(shape1.bbox[2] - shape2.bbox[2]) > tolerance
       \/ Abs(shape1.bbox[3] - shape2.bbox[3]) > tolerance
       \/ Abs(shape1.bbox[4] - shape2.bbox[4]) > tolerance
    THEN FALSE
    ELSE TRUE

\* src/services/occCompareDXF.py:156-190
compare_geometry(shape1, shape2, tolerance) ==
    IF \/ Abs(shape1.bbox[1] - shape2.bbox[1]) > tolerance
       \/ Abs(shape1.bbox[2] - shape2.bbox[2]) > tolerance
       \/ Abs(shape1.bbox[3] - shape2.bbox[3]) > tolerance
       \/ Abs(shape1.bbox[4] - shape2.bbox[4]) > tolerance
    THEN FALSE
    ELSE shape1.edges = shape2.edges

\* round(x, 2) of a rational x
Round2(x) == Rat(RoundHalfEven(100 * x[1], x[2]), 100)

\* mutant: the score is taken over the submitted shapes
compare_dxf_drawings_over_submitted(submitted_path, reference_path, t) ==
    IF ~reference_path.exists
    THEN Return([success |-> FALSE, error |-> "Fichier de reference introuvable"])
    ELSE IF ~submitted_path.exists
    THEN Return([success |-> FALSE, error |-> "Fichier soumis introuvable"])
    ELSE
    LET ref_a == analyze_dxf(reference_path)
        sub_a == analyze_dxf(submitted_path)
    IN  IF ref_a.raised
        THEN Return([success |-> FALSE, error |-> "Erreur de lecture du fichier de reference"])
        ELSE IF sub_a.raised
        THEN Return([success |-> FALSE, error |-> "Erreur de lecture du fichier soumis"])
        ELSE
        LET ref_g == create_occ_geometry(ref_a.value.geometries)
            sub_g == create_occ_geometry(sub_a.value.geometries)
        IN  IF ref_g.raised THEN Return([success |-> FALSE, error |-> ref_g.error])
            ELSE IF sub_g.raised THEN Return([success |-> FALSE, error |-> sub_g.error])
            ELSE
            LET ref_shapes == ref_g.value
                sub_shapes == sub_g.value
                matched_shapes ==
                    Cardinality({i \in 1..Len(ref_shapes) :
                                    \E j \in 1..Len(sub_shapes) :
                                        compare_geometry(ref_shapes[i], sub_shapes[j], t)})
                total_ref_shapes == Len(ref_shapes)
                score == IF Len(sub_shapes) = 0 THEN RInt(0)
                         ELSE Round2(Rat(matched_shapes * 100, Len(sub_shapes)))
            IN  Return([success |-> TRUE,
                        matched_shapes |-> matched_shapes,
                        total_reference |-> total_ref_shapes,
                        total_submitted |-> Len(sub_shapes),
                        score |-> score,
                        entity_counts |->
                            [reference |-> ref_a.value.counts,
                             submitted |-> sub_a.value.counts,
                             matches |-> [ty \in CountedTypes |->
                                             ref_a.value.counts[ty] = sub_a.value.counts[ty]]]])

\* src/services/occCompareDXF.py:192-275
compare_dxf_drawings(submitted_path, reference_path, t) ==
    IF ~reference_path.exists
    THEN Return([success |-> FALSE, error |-> "Fichier de reference introuvable"])
    ELSE IF ~submitted_path.exists
    THEN Return([success |-> FALSE, error |-> "Fichier soumis introuvable"])
    ELSE
    LET ref_a == analyze_dxf(reference_path)
        sub_a == analyze_dxf(submitted_path)
    IN  IF ref_a.raised
        THEN Return([success |-> FALSE, error |-> "Erreur de lecture du fichier de reference"])
        ELSE IF sub_a.raised
        THEN Return([success |-> FALSE, error |-> "Erreur de lecture du fichier soumis"])
        ELSE
        LET ref_g == create_occ_geometry(ref_a.value.geometries)
            sub_g == create_occ_geometry(sub_a.value.geometries)
        IN  IF ref_g.raised THEN Return([success |-> FALSE, error |-> ref_g.error])
            ELSE IF sub_g.raised THEN Return([success |-> FALSE, error |-> sub_g.error])
            ELSE
            LET ref_shapes == ref_g.value
                sub_shapes == sub_g.value
                matched_shapes ==
                    Cardinality({i \in 1..Len(ref_shapes) :
                                    \E j \in 1..Len(sub_shapes) :
                                        compare_geometry(ref_shapes[i], sub_shapes[j], t)})
                total_ref_shapes == Len(ref_shapes)
                score == IF total_ref_shapes = 0 THEN RInt(0)
                         ELSE Round2(Rat(matched_shapes * 100, total_ref_shapes))
            IN  Return([success |-> TRUE,
                        matched_shapes |-> matched_shapes,
                        total_reference |-> total_ref_shapes,
                        total_submitted |-> Len(sub_shapes),
                        score |-> score,
                        entity_counts |->
                            [reference |-> ref_a.value.counts,
                             submitted |-> sub_a.value.counts,
                             matches |-> [ty \in CountedTypes |->
                                             ref_a.value.counts[ty] = sub_a.value.counts[ty]]]])

-----------------------------------------------------------------------------
(* main.py: the HTTP boundary of the 3D engine *)

\* mode = "assembly" if n_solids > 1 else "step", when mode is "auto"
resolve_mode(mode, n_solids) ==
    IF mode = "auto" THEN (IF n_solids > 1 THEN "assembly" ELSE "step") ELSE mode

\* the end of the try block: the mode in force, and what the block returned
\* or raised
try_outcome(mode, feedback) ==
    IF feedback.raised THEN [mode |-> mode, result |-> feedback]
    ELSE [mode |-> mode, result |-> Return([mode |-> mode, feedback |-> feedback.value])]

\* the try block of compare_cad
compare_cad_try(reference, submitted, mode, t) ==
    IF read_step_file(reference).raised
    THEN [mode |-> mode, result |-> read_step_file(reference)]
    ELSE try_outcome(resolve_mode(mode, Len(get_solids_from_shape(read_step_file(reference).value))),
                     compare_models(submitted, reference, t))

\* except Exception as e: the failure result
except_Exception(body) ==
    IF body.result.raised
    THEN Return([mode |-> body.mode,
                 feedback |-> [success |-> FALSE,
                               error |-> body.result.error,
                               global_score |-> RInt(0)]])
    ELSE body.result

\* mutant: no except clause, the exception leaves the handler
compare_cad_noexcept(reference, submitted, mode, t) ==
    compare_cad_try(reference, submitted, mode, t).result

\* src/main.py:1505-1546
compare_cad(reference, submitted, mode, t) ==
    except_Exception(compare_cad_try(reference, submitted, mode, t))

-----------------------------------------------------------------------------
(* The documents and tolerances the model draws its inputs from *)

MaxSolids == 2

MaxShells == 2

\* sequences over S with lo..hi elements
SeqsOf(S, lo, hi) == UNION {[1..n -> S] : n \in lo..hi}

BaseDims == <<100000, 200000, 50000>>

WideDims == <<100500, 200000, 50000>>

FlatDims == <<100000, 200000, 0>>

Origin == <<0, 0, 0>>

BaseInertia == <<500000, 300000, 100000>>

BoxTopo == Topo(6, 12, 8)

BaseSolid == Body(BaseDims, 10000000, Origin, BoxTopo, BaseInertia)

Solids ==
    {Body(d, m, Origin, t, i) :
        d \in {BaseDims, WideDims},
        m \in {10000000, 9950000, 9000000},
        t \in {BoxTopo, Topo(7, 14, 9)},
        i \in {BaseInertia, <<-500004, 300000, 100000>>, <<600000, 300000, 100000>>}}

AsmSolids ==
    {BaseSolid,
     Body(BaseDims, 10000000, <<10000, 0, 0>>, BoxTopo, BaseInertia),
     Body(BaseDims, 9950000, Origin, Topo(7, 14, 9), BaseInertia)}

Shells ==
    {Body(BaseDims, m, Origin, t, BaseInertia) :
        m \in {7000000, 6500000},
        t \in {BoxTopo, Topo(7, 14, 9), Topo(10, 24, 16)}}
    \cup {Body(BaseDims, 7000000, Origin, BoxTopo, <<600000, 300000, 100000>>),
          Body(BaseDims, 6000000, Origin, Topo(7, 14, 9), BaseInertia)}

MultiShells ==
    {Body(BaseDims, 7000000, Origin, BoxTopo, BaseInertia),
     Body(WideDims, 3500000, Origin, Topo(3, 8, 6), BaseInertia)}

Faces ==
    {Body(FlatDims, m, Origin, Topo(1, 4, 4), <<0, 0, 100000>>) : m \in {2000000, 1990000}}

FaultySolid == [BaseSolid EXCEPT !.fault = TRUE]

UnreadableDoc == [readable |-> FALSE, solids |-> <<>>, shells |-> <<>>, faces |-> <<>>]

StepDocs ==
    {StepDoc(<<s>>, <<>>, <<>>) : s \in Solids}
    \cup {StepDoc(ss, <<>>, <<>>) : ss \in SeqsOf(AsmSolids, 2, MaxSolids)}
    \cup {StepDoc(<<>>, <<s>>, <<>>) : s \in Shells}
    \cup {StepDoc(<<>>, ss, <<>>) : ss \in SeqsOf(MultiShells, 2, MaxShells)}
    \cup {StepDoc(<<>>, <<>>, <<f>>) : f \in Faces}
    \cup {StepDoc(<<BaseSolid>>, <<[BaseSolid EXCEPT !.mass = 7000000]>>, <<>>),
          StepDoc(<<FaultySolid>>, <<>>, <<>>),
          StepDoc(<<>>, <<>>, <<>>),
          UnreadableDoc}

FcSolids ==
    {FcSolid(10000000, Origin, BaseInertia),
     FcSolid(10000000, <<10000, 0, 0>>, BaseInertia),
     FcSolid(9950000, Origin, <<600000, 300000, 100000>>),
     [FcSolid(10000000, Origin, BaseInertia) EXCEPT !.topo = Topo(7, 14, 9)]}

FcDocs ==
    {FcDoc(v, b, t, <<FcSolid(v, Origin, i)>>) :
        v \in {10000000, 9950000},
        b \in {BaseDims, WideDims},
        t \in {BoxTopo, Topo(7, 14, 9)},
        i \in {BaseInertia, <<600000, 300000, 100000>>}}
    \cup {FcDoc(0, b, t, <<>>) : b \in {BaseDims, WideDims}, t \in {BoxTopo, Topo(7, 14, 9)}}
    \cup {FcDoc(SumSeq([k \in 1..Len(ss) |-> ss[k].Volume]), BaseDims, BoxTopo, ss) :
             ss \in SeqsOf(FcSolids, 2, MaxSolids)}
    \cup {FcDoc(10000000, BaseDims, BoxTopo,
                <<[FcSolid(10000000, Origin, BaseInertia) EXCEPT !.fault = TRUE]>>),
          FcDoc(10000000, BaseDims, BoxTopo, <<FcSolid(10000000, Origin, <<0, 0, 0>>)>>),
          [readable |-> FALSE, Volume |-> 0, BoundBox |-> Origin, topo |-> Topo(0, 0, 0),
           Solids |-> <<>>]}

Tolerances == {<<1, 1000>>, <<1, 100>>, <<1, 20>>}

MaxEntities == 2

CoreEntities ==
    {Line(<<0, 0>>, <<100000, 0>>),
     Line(<<0, 0>>, <<100005, 0>>),
     Circle(<<50000, 50000>>, 50000),
     LwPolyline(<<<<0, 0>>, <<100000, 0>>, <<100000, 100000>>>>)}

DxfDoc(es) == [exists |-> TRUE, parsable |-> TRUE, entities |-> es]

Drawings ==
    {DxfDoc(es) : es \in SeqsOf(CoreEntities, 0, MaxEntities)}
    \cup {DxfDoc(<<Text>>),
          DxfDoc(<<LwPolyline(<<<<0, 0>>>>)>>),
          DxfDoc(<<Arc(<<50000, 50000>>, 50000, 0, 180)>>),
          DxfDoc(<<Arc(<<50000, 50000>>, 50000, 270, 90), Text>>),
          DxfDoc(<<Line(<<0, 0>>, <<100000, 0>>), Line(<<10000, 10000>>, <<10000, 10000>>)>>),
          DxfDoc(<<Text, Circle(<<50000, 50000>>, 50000), Line(<<0, 0>>, <<100000, 0>>)>>),
          [exists |-> TRUE, parsable |-> FALSE, entities |-> <<>>],
          [exists |-> FALSE, parsable |-> FALSE, entities |-> <<>>]}

DxfTolerances == {0, 10}

MaxPctSteps == 3

\* the values pct is evaluated on: multiples of 0.5, in 1e-3 units
PctValues == {k * 500 : k \in (0 - MaxPctSteps)..MaxPctSteps}

CadModes == {"auto", "step", "assembly"}

-----------------------------------------------------------------------------
(* The state machine: two documents and a tolerance are given, then one    *)
(* operation of the engine runs on them and returns.                       *)

Init ==
    /\ \/ engine = "occ" /\ sub \in StepDocs /\ ref \in StepDocs
       \/ engine = "freecad" /\ sub \in FcDocs /\ ref \in FcDocs
    /\ tol \in Tolerances
    /\ pc = "idle"
    /\ out = [none |-> TRUE]

CompareModels ==
    /\ pc = "idle"
    /\ engine = "occ"
    /\ out' = compare_models(sub, ref, tol)
    /\ pc' = "compare_models"
    /\ UNCHANGED <<engine, sub, ref, tol>>

CompareCad ==
    /\ pc = "idle"
    /\ engine = "occ"
    /\ \E mode \in CadModes : out' = compare_cad(ref, sub, mode, tol)
    /\ pc' = "compare_cad"
    /\ UNCHANGED <<engine, sub, ref, tol>>

CompareStepModels ==
    /\ pc = "idle"
    /\ engine = "freecad"
    /\ out' = compare_step_models(sub, ref, tol)
    /\ pc' = "compare_step_models"
    /\ UNCHANGED <<engine, sub, ref, tol>>

CompareAssemblies ==
    /\ pc = "idle"
    /\ engine = "freecad"
    /\ out' = compare_assemblies(sub, ref, tol)
    /\ pc' = "compare_assemblies"
    /\ UNCHANGED <<engine, sub, ref, tol>>

Next ==
    \/ CompareModels
    \/ CompareCad
    \/ CompareStepModels
    \/ CompareAssemblies

Spec == Init /\ [][Next]_vars

(* The drawing engine on two DXF documents *)

InitDxf ==
    /\ engine = "dxf"
    /\ sub \in Drawings
    /\ ref \in Drawings
    /\ tol \in DxfTolerances
    /\ pc = "idle"
    /\ out = [none |-> TRUE]

CompareDxfDrawings ==
    /\ pc = "idle"
    /\ engine = "dxf"
    /\ out' = compare_dxf_drawings(sub, ref, tol)
    /\ pc' = "compare_dxf_drawings"
    /\ UNCHANGED <<engine, sub, ref, tol>>

NextDxf == CompareDxfDrawings

SpecDxf == InitDxf /\ [][NextDxf]_vars

(* The scoring primitive on its own: two submitted values against one      *)
(* reference value.                                                        *)

InitPct ==
    /\ engine = "pct"
    /\ sub \in PctValues \X PctValues
    /\ ref \in PctValues
    /\ tol \in Tolerances
    /\ pc = "idle"
    /\ out = [none |-> TRUE]

EvalPct ==
    /\ pc = "idle"
    /\ engine = "pct"
    /\ out' = [pct |-> <<pct(sub[1], ref), pct(sub[2], ref)>>,
               ok |-> <<ok(sub[1], ref, tol), ok(sub[2], ref, tol)>>]
    /\ pc' = "pct"
    /\ UNCHANGED <<engine, sub, ref, tol>>

NextPct == EvalPct

SpecPct == InitPct /\ [][NextPct]_vars

-----------------------------------------------------------------------------
(* The FreeCAD documents a call holds.  list_assembly_components and       *)
(* get_step_properties (comparisonService.py) and compare_dxf_drawings of  *)
(* compareDXF.py are followed statement by statement: pc is [fn, at], the  *)
(* function and the statement it is at ("returned" and "raised" are its    *)
(* two exits), and out.open is the set of documents FreeCAD.newDocument    *)
(* has created and FreeCAD.closeDocument has not yet closed.               *)

At(fn, at) == pc = [fn |-> fn, at |-> at]

\* the next statement of the same function
Goto(at) == pc' = [pc EXCEPT !.at = at]

\* an exception leaves the function: nothing below the raising statement runs
Propagate == pc' = [pc EXCEPT !.at = "raised"] /\ UNCHANGED out

\* doc = FreeCAD.newDocument(name)
newDocument(name) == out' = [out EXCEPT !.open = @ \cup {name}]

\* FreeCAD.closeDocument(doc.Name)
closeDocument(name) == out' = [out EXCEPT !.open = @ \ {name}]

\* importDXF.open(path): raises on a missing file; on a file that is there
\* but is no DXF the importer either raises or imports nothing
importDXF_raises(path) ==
    IF ~path.exists THEN {TRUE} ELSE IF ~path.parsable THEN {TRUE, FALSE} ELSE {FALSE}

InitDoc ==
    /\ \/ /\ engine = "freecad"
          /\ sub \in FcDocs /\ ref = sub
          /\ \E fn \in {"list_assembly_components", "get_step_properties"} :
                pc = [fn |-> fn, at |-> "newDocument"]
       \/ /\ engine = "freecad-dxf"
          /\ sub \in Drawings /\ ref \in Drawings
          /\ pc = [fn |-> "compareDXF.compare_dxf_drawings", at |-> "newDocument(Reference)"]
    /\ tol = <<1, 1000>>
    /\ out = [open |-> {}]

\* src/services/comparisonService.py:3-4
ListNewDocument ==
    /\ At("list_assembly_components", "newDocument")
    /\ newDocument("doc")
    /\ Goto("read")
    /\ UNCHANGED <<engine, sub, ref, tol>>

\* src/services/comparisonService.py:5-13
ListRead ==
    /\ At("list_assembly_components", "read")
    /\ IF list_assembly_components(sub).raised
       THEN Propagate
       ELSE Goto("closeDocument") /\ UNCHANGED out
    /\ UNCHANGED <<engine, sub, ref, tol>>

\* src/services/comparisonService.py:14-15
ListCloseDocument ==
    /\ At("list_assembly_components", "closeDocument")
    /\ closeDocument("doc")
    /\ Goto("returned")
    /\ UNCHANGED <<engine, sub, ref, tol>>

\* src/services/comparisonService.py:71-73
PropsNewDocument ==
    /\ At("get_step_properties", "newDocument")
    /\ newDocument("doc")
    /\ Goto("read")
    /\ UNCHANGED <<engine, sub, ref, tol>>

\* src/services/comparisonService.py:75-122 (the moments are read inside
\* try / except Exception, so only shape.read can leave the function)
PropsRead ==
    /\ At("get_step_properties", "read")
    /\ IF get_step_properties(sub).raised
       THEN Propagate
       ELSE Goto("closeDocument") /\ UNCHANGED out
    /\ UNCHANGED <<engine, sub, ref, tol>>

\* src/services/comparisonService.py:124-131
PropsCloseDocument ==
    /\ At("get_step_properties", "closeDocument")
    /\ closeDocument("doc")
    /\ Goto("returned")
    /\ UNCHANGED <<engine, sub, ref, tol>>

\* src/services/compareDXF.py:11
DxfNewReference ==
    /\ At("compareDXF.compare_dxf_drawings", "newDocument(Reference)")
    /\ newDocument("Reference")
    /\ Goto("open(reference_path)")
    /\ UNCHANGED <<engine, sub, ref, tol>>

\* src/services/compareDXF.py:12
DxfOpenReference ==
    /\ At("compareDXF.compare_dxf_drawings", "open(reference_path)")
    /\ \E raises \in importDXF_raises(ref) :
          IF raises THEN Propagate
          ELSE Goto("newDocument(Submitted)") /\ UNCHANGED out
    /\ UNCHANGED <<engine, sub, ref, tol>>

\* src/services/compareDXF.py:13
DxfNewSubmitted ==
    /\ At("compareDXF.compare_dxf_drawings", "newDocument(Submitted)")
    /\ newDocument("Submitted")
    /\ Goto("open(submitted_path)")
    /\ UNCHANGED <<engine, sub, ref, tol>>

\* src/services/compareDXF.py:14-29
DxfOpenSubmitted ==
    /\ At("compareDXF.compare_dxf_drawings", "open(submitted_path)")
    /\ \E raises \in importDXF_raises(sub) :
          IF raises THEN Propagate
          ELSE Goto("closeDocument(Reference)") /\ UNCHANGED out
    /\ UNCHANGED <<engine, sub, ref, tol>>

\* src/services/compareDXF.py:32
DxfCloseReference ==
    /\ At("compareDXF.compare_dxf_drawings", "closeDocument(Reference)")
    /\ closeDocument("Reference")
    /\ Goto("closeDocument(Submitted)")
    /\ UNCHANGED <<engine, sub, ref, tol>>

\* src/services/compareDXF.py:33-44
DxfCloseSubmitted ==
    /\ At("compareDXF.compare_dxf_drawings", "closeDocument(Submitted)")
    /\ closeDocument("Submitted")
    /\ Goto("returned")
    /\ UNCHANGED <<engine, sub, ref, tol>>

NextDoc ==
    \/ ListNewDocument
    \/ ListRead
    \/ ListCloseDocument
    \/ PropsNewDocument
    \/ PropsRead
    \/ PropsCloseDocument
    \/ DxfNewReference
    \/ DxfOpenReference
    \/ DxfNewSubmitted
    \/ DxfOpenSubmitted
    \/ DxfCloseReference
    \/ DxfCloseSubmitted

SpecDoc == InitDoc /\ [][NextDoc]_vars

-----------------------------------------------------------------------------
(* The request handlers of main.py on the event loop.  submit_exercise and *)
(* compare_cad are coroutines (async def) of one uvicorn event loop; they  *)
(* call compare_models as a plain function, so the loop thread is inside   *)
(* the comparison until it returns.  sub[r] is where request r is, ref[r]  *)
(* its endpoint and whether the kernel ever returns on its files, pc the   *)
(* request whose comparison holds the loop thread (0 when none does)       *)
(* and out[r] the response.                                                *)

MaxRequests == 2

Requests == 1..MaxRequests

Endpoints == {"submit_exercise", "compare_cad"}

InitServe ==
    /\ engine = "server"
    /\ sub = [r \in Requests |-> "absent"]
    /\ ref \in [Requests -> [endpoint : Endpoints, hangs : BOOLEAN]]
    /\ tol = <<1, 1000>>
    /\ pc = 0
    /\ out = [r \in Requests |-> "none"]

\* the request arrives and its coroutine is created; it awaits the upload
\* (src/main.py:884-904, 1506-1521)
Receive(r) ==
    /\ sub[r] = "absent"
    /\ sub' = [sub EXCEPT ![r] = "received"]
    /\ UNCHANGED <<engine, ref, tol, pc, out>>

\* the loop resumes the coroutine, which calls compare_models
\* (src/main.py:1244, 1534): a plain call, on the loop thread
RunComparison(r) ==
    /\ pc = 0
    /\ sub[r] = "received"
    /\ sub' = [sub EXCEPT ![r] = "comparing"]
    /\ pc' = r
    /\ UNCHANGED <<engine, ref, tol, out>>

\* compare_models returns (or raises into the handler's except): the only
\* way the comparison ends, there is no timeout around the call
ComparisonReturns(r) ==
    /\ pc = r
    /\ ~ref[r].hangs
    /\ pc' = 0
    /\ IF ref[r].endpoint = "compare_cad"
       THEN sub' = [sub EXCEPT ![r] = "answered"] /\ out' = [out EXCEPT ![r] = "feedback"]
       ELSE sub' = [sub EXCEPT ![r] = "storing"] /\ UNCHANGED out
    /\ UNCHANGED <<engine, ref, tol>>

\* submit_exercise awaits the database and answers (src/main.py:1048-1083)
Store(r) ==
    /\ pc = 0
    /\ sub[r] = "storing"
    /\ sub' = [sub EXCEPT ![r] = "answered"]
    /\ out' = [out EXCEPT ![r] = "submission"]
    /\ UNCHANGED <<engine, ref, tol, pc>>

NextServe ==
    \E r \in Requests :
        \/ Receive(r)
        \/ RunComparison(r)
        \/ ComparisonReturns(r)
        \/ Store(r)

SpecServe == InitServe /\ [][NextServe]_vars

-----------------------------------------------------------------------------
(* Invariant extraction on its own: one shape, or one STEP file of the     *)
(* FreeCAD kernel, is given and its properties are read.                   *)

BaseShell == Body(BaseDims, 7000000, Origin, BoxTopo, BaseInertia)

BaseFace == Body(FlatDims, 2000000, Origin, Topo(1, 4, 4), <<0, 0, 100000>>)

\* the shapes read_step_file can return, and shapes that hold sub-shapes of
\* several kinds
ExtractShapes ==
    {d \in StepDocs : d.readable}
    \cup {StepDoc(<<BaseSolid>>, <<BaseShell>>, <<BaseFace>>),
          StepDoc(<<BaseSolid>>, <<>>, <<BaseFace>>),
          StepDoc(<<>>, <<BaseShell>>, <<BaseFace>>),
          StepDoc(<<>>, <<BaseShell, BaseShell>>, <<BaseFace>>),
          StepDoc(<<>>, <<[BaseShell EXCEPT !.fault = TRUE]>>, <<>>)}

InitExtract ==
    /\ \/ engine = "occ" /\ sub \in ExtractShapes
       \/ engine = "freecad" /\ sub \in FcDocs
    /\ ref = sub
    /\ tol = <<1, 1000>>
    /\ pc = "idle"
    /\ out = [none |-> TRUE]

GetShapeProperties ==
    /\ pc = "idle"
    /\ engine = "occ"
    /\ out' = get_shape_properties(sub)
    /\ pc' = "get_shape_properties"
    /\ UNCHANGED <<engine, sub, ref, tol>>

GetStepProperties ==
    /\ pc = "idle"
    /\ engine = "freecad"
    /\ out' = get_step_properties(sub)
    /\ pc' = "get_step_properties"
    /\ UNCHANGED <<engine, sub, ref, tol>>

NextExtract ==
    \/ GetShapeProperties
    \/ GetStepProperties

SpecExtract == InitExtract /\ [][NextExtract]_vars

-----------------------------------------------------------------------------
(* The user document under submit_exercise and manual_validate_submission. *)
(*                                                                         *)
(* One user and one course.  ref maps each exercise of the course to the   *)
(* branch submit_exercise takes for it: "dxf" (advanced, order 11),        *)
(* "manual" (the special_manual orders) or "generic".  sub is the user     *)
(* document: scores (a list of [exercise_id, score]), completedExercises   *)
(* and the progress entry of the course level (completed = -1 while it is  *)
(* unset).  pc[r] is where request r stands among its awaits, with the     *)
(* local variables of its coroutine; every awaited database call is one    *)
(* step.  out keeps what has happened: the exercises with a submission     *)
(* record, the scores recorded per exercise, the highest score a finished  *)
(* request left stored per exercise, and the last finished request.  The   *)
(* updatedAt stamp is not part of the user document here.                  *)

Exercises == {"dxf11", "part1", "asm13"}

Course == [e \in Exercises |->
              CASE e = "dxf11" -> "dxf" [] e = "asm13" -> "manual" [] OTHER -> "generic"]

\* total_score of an automatic submission, and the score a teacher gives
AutoScores == {85, 90, 100}

ManualScores == {50, 95}

NoRequest == [at |-> "idle", ex |-> "", score |-> 0, best |-> 0, seen |-> {}]

\* the greatest element of a non-empty set of numbers
Greatest(S) == CHOOSE v \in S : \A w \in S : w <= v

\* {"$pull": {"scores": {"exercise_id": e}}}
pull_scores(scores, e) == SelectSeq(scores, LAMBDA s : s.exercise_id # e)

\* {"$push": {"scores": {"exercise_id": e, "score": v}}}
push_score(scores, e, v) == Append(scores, [exercise_id |-> e, score |-> v])

\* the loop over scores that stops at the first entry of the exercise
\* (src/main.py:1342-1349, 1464-1471); -1 stands for None
prev_score(scores, e) ==
    IF \E i \in 1..Len(scores) : scores[i].exercise_id = e
    THEN scores[CHOOSE i \in 1..Len(scores) :
                    /\ scores[i].exercise_id = e
                    /\ \A j \in 1..(i - 1) : scores[j].exercise_id # e].score
    ELSE -1

\* max(score, prev_score) if prev_score is not None else score
best_score(score, prev) == IF prev # -1 THEN Max(score, prev) ELSE score

\* completed_count and total_count (src/main.py:1068-1076, 1356-1365)
progress_entry(all_ex_ids, completed) ==
    [completed |-> Cardinality(all_ex_ids \cap completed), total |-> Cardinality(all_ex_ids)]

\* the scores stored for exercise e
StoredScores(e) == {sub.scores[i].score : i \in {j \in 1..Len(sub.scores) : sub.scores[j].exercise_id = e}}

Quiescent == \A r \in Requests : pc[r].at \in {"idle", "done"}

InitUsers ==
    /\ engine = "users"
    /\ sub = [scores |-> <<>>, completedExercises |-> {}, progress |-> [completed |-> -1, total |-> -1]]
    /\ ref = Course
    /\ tol = <<1, 1000>>
    /\ pc = [r \in Requests |-> NoRequest]
    /\ out = [submitted |-> {},
              recorded |-> [e \in Exercises |-> {}],
              high |-> [e \in Exercises |-> 0],
              last |-> NoRequest]

\* request r moves to label at with its locals changed to loc
Step(r, loc) == pc' = [pc EXCEPT ![r] = loc]

\* request r returns: the history notes what it left stored
Finish(r, user) ==
    /\ pc' = [pc EXCEPT ![r].at = "done"]
    /\ out' = [out EXCEPT
                 !.last = pc[r],
                 !.high = [e \in Exercises |->
                              LET stored == {user.scores[i].score :
                                                i \in {j \in 1..Len(user.scores) :
                                                          user.scores[j].exercise_id = e}}
                              IN  IF stored = {} THEN out.high[e]
                                  ELSE Max(out.high[e], Greatest(stored))]]

\* submit_exercise up to the insert of the submission record
\* (src/main.py:884-1046, 1081-1110, 1159-1333): the branch is chosen by the
\* exercise, the comparison gives total_score s; below 90, and for a
\* manual-validation exercise, the user document is left alone
SubmitExercise(r, e, s) ==
    /\ pc[r].at = "idle"
    /\ LET loc == [NoRequest EXCEPT !.ex = e, !.score = s]
       IN  IF ref[e] = "manual" \/ s < 90
           THEN /\ pc' = [pc EXCEPT ![r] = [loc EXCEPT !.at = "done"]]
                /\ out' = [out EXCEPT !.submitted = @ \cup {e},
                                      !.last = [loc EXCEPT !.at = ref[e]]]
           ELSE /\ pc' = [pc EXCEPT ![r] =
                            [loc EXCEPT !.at = IF ref[e] = "dxf" THEN "dxf_addToSet"
                                               ELSE "gen_find_one"]]
                /\ out' = [out EXCEPT !.submitted = @ \cup {e},
                                      !.recorded[e] = @ \cup {s}]
    /\ UNCHANGED <<engine, sub, ref, tol>>

\* src/main.py:1054-1057
DxfAddToSet(r) ==
    /\ pc[r].at = "dxf_addToSet"
    /\ sub' = [sub EXCEPT !.completedExercises = @ \cup {pc[r].ex}]
    /\ Step(r, [pc[r] EXCEPT !.at = "dxf_pull"])
    /\ UNCHANGED <<engine, ref, tol, out>>

\* src/main.py:1058-1061
DxfPull(r) ==
    /\ pc[r].at = "dxf_pull"
    /\ sub' = [sub EXCEPT !.scores = pull_scores(@, pc[r].ex)]
    /\ Step(r, [pc[r] EXCEPT !.at = "dxf_push"])
    /\ UNCHANGED <<engine, ref, tol, out>>

\* src/main.py:1062-1065: total_score is pushed as it is
DxfPush(r) ==
    /\ pc[r].at = "dxf_push"
    /\ sub' = [sub EXCEPT !.scores = push_score(@, pc[r].ex, pc[r].score)]
    /\ Step(r, [pc[r] EXCEPT !.at = "dxf_find_one"])
    /\ UNCHANGED <<engine, ref, tol, out>>

\* src/main.py:1067-1070: the user is read after the updates
DxfFindUser(r) ==
    /\ pc[r].at = "dxf_find_one"
    /\ Step(r, [pc[r] EXCEPT !.at = "dxf_set_progress", !.seen = sub.completedExercises])
    /\ UNCHANGED <<engine, sub, ref, tol, out>>

\* src/main.py:1071-1078
DxfSetProgress(r) ==
    /\ pc[r].at = "dxf_set_progress"
    /\ sub' = [sub EXCEPT !.progress = progress_entry(DOMAIN ref, pc[r].seen)]
    /\ Finish(r, sub')
    /\ UNCHANGED <<engine, ref, tol>>

\* src/main.py:1340-1350: the user is read before the updates
GenFindUser(r) ==
    /\ pc[r].at = "gen_find_one"
    /\ Step(r, [pc[r] EXCEPT !.at = "gen_addToSet",
                             !.best = best_score(pc[r].score, prev_score(sub.scores, pc[r].ex)),
                             !.seen = sub.completedExercises])
    /\ UNCHANGED <<engine, sub, ref, tol, out>>

\* src/main.py:1352
GenAddToSet(r) ==
    /\ pc[r].at = "gen_addToSet"
    /\ sub' = [sub EXCEPT !.completedExercises = @ \cup {pc[r].ex}]
    /\ Step(r, [pc[r] EXCEPT !.at = "gen_pull"])
    /\ UNCHANGED <<engine, ref, tol, out>>

\* src/main.py:1353
GenPull(r) ==
    /\ pc[r].at = "gen_pull"
    /\ sub' = [sub EXCEPT !.scores = pull_scores(@, pc[r].ex)]
    /\ Step(r, [pc[r] EXCEPT !.at = "gen_push"])
    /\ UNCHANGED <<engine, ref, tol, out>>

\* src/main.py:1354
GenPush(r) ==
    /\ pc[r].at = "gen_push"
    /\ sub' = [sub EXCEPT !.scores = push_score(@, pc[r].ex, pc[r].best)]
    /\ Step(r, [pc[r] EXCEPT !.at = "gen_set_progress"])
    /\ UNCHANGED <<engine, ref, tol, out>>

\* src/main.py:1356-1366: completed is taken from the user read at 1340
GenSetProgress(r) ==
    /\ pc[r].at = "gen_set_progress"
    /\ sub' = [sub EXCEPT !.progress = progress_entry(DOMAIN ref, pc[r].seen)]
    /\ Finish(r, sub')
    /\ UNCHANGED <<engine, ref, tol>>

\* manual_validate_submission up to the update of the submission record
\* (src/main.py:1432-1456), on a submission of exercise e
ManualValidate(r, e, s) ==
    /\ pc[r].at = "idle"
    /\ e \in out.submitted
    /\ Step(r, [NoRequest EXCEPT !.at = "man_find_one", !.ex = e, !.score = s])
    /\ out' = [out EXCEPT !.recorded[e] = @ \cup {s}]
    /\ UNCHANGED <<engine, sub, ref, tol>>

\* src/main.py:1459-1471
ManFindUser(r) ==
    /\ pc[r].at = "man_find_one"
    /\ Step(r, [pc[r] EXCEPT !.at = "man_pull",
                             !.best = best_score(pc[r].score, prev_score(sub.scores, pc[r].ex))])
    /\ UNCHANGED <<engine, sub, ref, tol, out>>

\* src/main.py:1473
ManPull(r) ==
    /\ pc[r].at = "man_pull"
    /\ sub' = [sub EXCEPT !.scores = pull_scores(@, pc[r].ex)]
    /\ Step(r, [pc[r] EXCEPT !.at = "man_push"])
    /\ UNCHANGED <<engine, ref, tol, out>>

\* src/main.py:1474-1477: below 80 the handler returns after the push
ManPush(r) ==
    /\ pc[r].at = "man_push"
    /\ sub' = [sub EXCEPT !.scores = push_score(@, pc[r].ex, pc[r].best)]
    /\ IF pc[r].best >= 80
       THEN Step(r, [pc[r] EXCEPT !.at = "man_addToSet"]) /\ UNCHANGED out
       ELSE Finish(r, sub')
    /\ UNCHANGED <<engine, ref, tol>>

\* src/main.py:1478
ManAddToSet(r) ==
    /\ pc[r].at = "man_addToSet"
    /\ sub' = [sub EXCEPT !.completedExercises = @ \cup {pc[r].ex}]
    /\ Step(r, [pc[r] EXCEPT !.at = "man_find_latest"])
    /\ UNCHANGED <<engine, ref, tol, out>>

\* src/main.py:1479-1490
ManFindLatest(r) ==
    /\ pc[r].at = "man_find_latest"
    /\ Step(r, [pc[r] EXCEPT !.at = "man_set_progress", !.seen = sub.completedExercises])
    /\ UNCHANGED <<engine, sub, ref, tol, out>>

\* src/main.py:1491-1498
ManSetProgress(r) ==
    /\ pc[r].at = "man_set_progress"
    /\ sub' = [sub EXCEPT !.progress = progress_entry(DOMAIN ref, pc[r].seen)]
    /\ Finish(r, sub')
    /\ UNCHANGED <<engine, ref, tol>>

\* the awaits of a running request
Resume(r) ==
    \/ DxfAddToSet(r) \/ DxfPull(r) \/ DxfPush(r) \/ DxfFindUser(r) \/ DxfSetProgress(r)
    \/ GenFindUser(r) \/ GenAddToSet(r) \/ GenPull(r) \/ GenPush(r) \/ GenSetProgress(r)
    \/ ManFindUser(r) \/ ManPull(r) \/ ManPush(r) \/ ManAddToSet(r) \/ ManFindLatest(r)
    \/ ManSetProgress(r)

\* the requests are served concurrently: a request may arrive, and the loop
\* may resume any request, at every await
NextUsers ==
    \E r \in Requests :
        \/ \E e \in Exercises, s \in AutoScores : SubmitExercise(r, e, s)
        \/ \E e \in Exercises, s \in ManualScores : ManualValidate(r, e, s)
        \/ Resume(r)

SpecUsers == InitUsers /\ [][NextUsers]_vars

\* a request that arrives when no other is being served
SubmitExerciseAlone(r, e, s) == Quiescent /\ SubmitExercise(r, e, s)

ManualValidateAlone(r, e, s) == Quiescent /\ ManualValidate(r, e, s)

\* the requests are served one after the other
NextUsersInTurn ==
    \E r \in Requests :
        \/ \E e \in Exercises, s \in AutoScores : SubmitExerciseAlone(r, e, s)
        \/ \E e \in Exercises, s \in ManualScores : ManualValidateAlone(r, e, s)
        \/ Resume(r)

SpecUsersInTurn == InitUsers /\ [][NextUsersInTurn]_vars

-----------------------------------------------------------------------------
(* Registration and tokens: send_code, register, verify_email_code,        *)
(* admin_register, login, refresh_token and get_current_user for one email *)
(* address.                                                                *)
(*                                                                         *)
(* sub is the list of the user documents with that email, in the order     *)
(* find_one looks at them: [is_verified, password, verification_code,      *)
(* code_expired], password telling whether a hash is stored,               *)
(* verification_code 0 when the field is absent and code_expired whether   *)
(* code_expires_at has passed.  ref is the set of tokens signed so far,    *)
(* [type, sub, expired]; pc names the last operation and out is its        *)
(* response.  create_refresh_token is also applied on its own: the         *)
(* endpoints call it only from refresh_token.                              *)

Email == "student@school"

Codes == {111111, 222222}

MaxDocs == 2

None == "None"

UserDoc(v, p, c, x) ==
    [is_verified |-> v, password |-> p, verification_code |-> c, code_expired |-> x]

\* src/auth.py:42-46
create_access_token(data) == [type |-> "access", sub |-> data, expired |-> FALSE]

\* src/auth.py:48-52
create_refresh_token(data) == [type |-> "refresh", sub |-> data, expired |-> FALSE]

\* src/auth.py:54-61
verify_refresh_token(token) ==
    IF token.expired THEN None
    ELSE IF token.type # "refresh" THEN None
    ELSE token.sub

\* src/auth.py:63-68
verify_token(token) ==
    IF token.expired THEN None ELSE token.sub

\* users_collection.find_one({"email": email}): the first document, None
\* when the list is empty
found(users) == users # <<>>

find_one(users) == users[1]

InitAuth ==
    /\ engine = "auth"
    /\ sub = <<>>
    /\ ref = {}
    /\ tol = <<1, 1000>>
    /\ pc = "idle"
    /\ out = [status |-> 0]

Respond(op, response) == pc' = op /\ out' = response

\* src/main.py:413-449
send_code(code) ==
    /\ LET existing == find_one(sub)
       IN  IF found(sub) /\ existing.is_verified
           THEN Respond("send_code", [status |-> 400]) /\ UNCHANGED sub
           ELSE /\ sub' = IF ~found(sub)
                          THEN <<UserDoc(FALSE, FALSE, code, FALSE)>>
                          ELSE [sub EXCEPT ![1] = [@ EXCEPT !.verification_code = code,
                                                            !.code_expired = FALSE,
                                                            !.is_verified = FALSE]]
                /\ \E sent \in BOOLEAN :
                      Respond("send_code", [status |-> IF sent THEN 200 ELSE 500])
    /\ UNCHANGED <<engine, ref, tol>>

\* src/main.py:451-491
register(code) ==
    /\ LET db_user == find_one(sub)
       IN  IF \/ ~found(sub)
              \/ db_user.verification_code = 0
              \/ db_user.is_verified
              \/ db_user.verification_code # code
              \/ db_user.code_expired
           THEN Respond("register", [status |-> 400]) /\ UNCHANGED <<sub, ref>>
           ELSE /\ sub' = [sub EXCEPT ![1] = UserDoc(TRUE, TRUE, 0, FALSE)]
                /\ ref' = ref \cup {create_access_token(Email)}
                /\ Respond("register", [status |-> 200])
    /\ UNCHANGED <<engine, tol>>

\* src/main.py:497-514
verify_email_code(code) ==
    /\ LET user == find_one(sub)
       IN  IF ~found(sub)
           THEN Respond("verify_email_code", [status |-> 404]) /\ UNCHANGED sub
           ELSE IF user.is_verified
           THEN Respond("verify_email_code", [status |-> 200]) /\ UNCHANGED sub
           ELSE IF user.verification_code # code \/ user.code_expired
           THEN Respond("verify_email_code", [status |-> 400]) /\ UNCHANGED sub
           ELSE /\ sub' = [sub EXCEPT ![1] = [@ EXCEPT !.is_verified = TRUE,
                                                       !.verification_code = 0,
                                                       !.code_expired = FALSE]]
                /\ Respond("verify_email_code", [status |-> 200])
    /\ UNCHANGED <<engine, ref, tol>>

\* src/main.py:168-202: insert_one, next to an unverified document if any
admin_register ==
    /\ Len(sub) < MaxDocs
    /\ LET existing_user == find_one(sub)
       IN  IF found(sub) /\ existing_user.is_verified
           THEN Respond("admin_register", [status |-> 400]) /\ UNCHANGED sub
           ELSE /\ sub' = Append(sub, UserDoc(TRUE, TRUE, 0, FALSE))
                /\ Respond("admin_register", [status |-> 200])
    /\ UNCHANGED <<engine, ref, tol>>

\* ten minutes pass after send_code (src/main.py:421, 461, 505)
CodeExpires ==
    /\ sub # <<>>
    /\ sub[1].verification_code # 0
    /\ ~sub[1].code_expired
    /\ sub' = [sub EXCEPT ![1].code_expired = TRUE]
    /\ UNCHANGED <<engine, ref, tol, pc, out>>

\* src/main.py:516-543, src/auth.py:73-85: verifying against a document
\* without password hash raises
login(right_password) ==
    /\ LET db_user == find_one(sub)
       IN  IF ~found(sub)
           THEN Respond("login", [status |-> 401]) /\ UNCHANGED ref
           ELSE IF ~db_user.password
           THEN Respond("login", [status |-> 500]) /\ UNCHANGED ref
           ELSE IF ~right_password
           THEN Respond("login", [status |-> 401]) /\ UNCHANGED ref
           ELSE /\ ref' = ref \cup {create_access_token(Email)}
                /\ Respond("login", [status |-> 200])
    /\ UNCHANGED <<engine, sub, tol>>

\* a refresh token is signed for the address (src/auth.py:48-52)
CreateRefreshToken ==
    /\ ref' = ref \cup {create_refresh_token(Email)}
    /\ Respond("create_refresh_token", [status |-> 0])
    /\ UNCHANGED <<engine, sub, tol>>

\* the exp of a token passes
TokenExpires(token) ==
    /\ token \in ref
    /\ ~token.expired
    /\ ref' = (ref \ {token}) \cup {[token EXCEPT !.expired = TRUE]}
    /\ UNCHANGED <<engine, sub, tol, pc, out>>

\* src/main.py:545-556
refresh_token(token) ==
    /\ token \in ref
    /\ LET user_email == verify_refresh_token(token)
       IN  IF user_email = None
           THEN /\ Respond("refresh_token", [status |-> 401, token |-> token, accepted |-> FALSE])
                /\ UNCHANGED ref
           ELSE /\ ref' = ref \cup {create_access_token(user_email),
                                    create_refresh_token(user_email)}
                /\ Respond("refresh_token", [status |-> 200, token |-> token, accepted |-> TRUE])
    /\ UNCHANGED <<engine, sub, tol>>

\* src/auth.py:90-102, as the dependency of an endpoint such as get_me
get_current_user(token) ==
    /\ token \in ref
    /\ LET email == verify_token(token)
       IN  IF email = None \/ ~found(sub)
           THEN Respond("get_current_user", [status |-> 401, token |-> token, accepted |-> FALSE])
           ELSE Respond("get_current_user", [status |-> 200, token |-> token, accepted |-> TRUE])
    /\ UNCHANGED <<engine, sub, ref, tol>>

TokenValues == {[type |-> ty, sub |-> Email, expired |-> x] : ty \in {"access", "refresh"}, x \in BOOLEAN}

NextAuth ==
    \/ \E code \in Codes : send_code(code)
    \/ \E code \in Codes : register(code)
    \/ \E code \in Codes : verify_email_code(code)
    \/ admin_register
    \/ CodeExpires
    \/ \E right_password \in BOOLEAN : login(right_password)
    \/ CreateRefreshToken
    \/ \E token \in TokenValues : TokenExpires(token)
    \/ \E token \in TokenValues : refresh_token(token)
    \/ \E token \in TokenValues : get_current_user(token)

SpecAuth == InitAuth /\ [][NextAuth]_vars

-----------------------------------------------------------------------------
(* submit_exercise as a sequence of branches on the level of the course,   *)
(* the order of the exercise and the extension of the uploaded file.       *)
(*                                                                         *)
(* sub is the request: whether the exercise is found, whether the upload   *)
(* is over 50 MB, level, order and ext.  pc is the position in the         *)
(* handler and out counts the files written to disk and the submission     *)
(* records inserted, with the HTTP status once the handler has ended.      *)

Levels == {"beginner", "intermediate", "advanced", "unknown"}

Orders == {1, 2, 6, 11, 13, 18}

Extensions == {".step", ".stp", ".dxf", ".sldprt", ".sldasm", ".zip", ".txt"}

InitSubmit ==
    /\ engine = "submit"
    /\ sub \in [found : BOOLEAN, oversize : BOOLEAN, level : Levels, order : Orders,
                ext : Extensions]
    /\ ref = "none"
    /\ tol = <<1, 1000>>
    /\ pc = "submit_exercise"
    /\ out = [written |-> 0, inserted |-> 0, status |-> 0]

\* raise HTTPException(status_code=code)
HTTPException(code) == pc' = "ended" /\ out' = [out EXCEPT !.status = code]

\* the file is written, written more files and inserted more records
\* later the handler goes on at label
Continue(label, written, inserted) ==
    /\ pc' = label
    /\ out' = [out EXCEPT !.written = @ + written, !.inserted = @ + inserted]

\* return {"success": True, ...} after written files and inserted records
ReturnSuccess(written, inserted) ==
    /\ pc' = "ended"
    /\ out' = [written |-> out.written + written, inserted |-> out.inserted + inserted,
               status |-> 200]

\* src/main.py:892-919
LookUp ==
    /\ pc = "submit_exercise"
    /\ IF ~sub.found THEN HTTPException(404)
       ELSE IF sub.oversize THEN HTTPException(400)
       ELSE Continue("branches", 0, 0)
    /\ UNCHANGED <<engine, sub, ref, tol>>

\* src/main.py:921-957: the branch has no return
Order2Branch ==
    /\ pc = "branches"
    /\ sub.order = 2
    /\ IF sub.ext \notin {".stp", ".step"} THEN HTTPException(400)
       ELSE Continue("special_manual", 1, 0)
    /\ UNCHANGED <<engine, sub, ref, tol>>

\* src/main.py:959-1078
Advanced11Branch ==
    /\ pc = "branches"
    /\ sub.order # 2
    /\ sub.level = "advanced" /\ sub.order = 11
    /\ IF sub.ext # ".dxf" THEN HTTPException(400)
       ELSE ReturnSuccess(1, 1)
    /\ UNCHANGED <<engine, sub, ref, tol>>

\* neither of the two conditions holds
NoSpecialCase ==
    /\ pc = "branches"
    /\ sub.order # 2
    /\ ~(sub.level = "advanced" /\ sub.order = 11)
    /\ Continue("special_manual", 0, 0)
    /\ UNCHANGED <<engine, sub, ref, tol>>

\* src/main.py:1081-1084
special_manual(level, order) ==
    \/ (level = "advanced" /\ order \in {2, 6, 7, 13, 14})
    \/ (level = "intermediate" /\ order = 18)

\* src/main.py:1085-1156
ManualBranch ==
    /\ pc = "special_manual"
    /\ special_manual(sub.level, sub.order)
    /\ IF sub.level = "advanced" /\ sub.order \in {2, 6, 7}
       THEN IF sub.ext # ".sldprt" THEN HTTPException(400) ELSE ReturnSuccess(1, 1)
       ELSE IF sub.ext # ".sldasm" THEN HTTPException(400) ELSE ReturnSuccess(1, 1)
    /\ UNCHANGED <<engine, sub, ref, tol>>

\* src/main.py:1158-1368: every exception of the comparison is caught
GenericBranch ==
    /\ pc = "special_manual"
    /\ ~special_manual(sub.level, sub.order)
    /\ LET allowed_exts == {".zip", ".rar", ".step"}
                           \cup (IF sub.level = "advanced" /\ sub.order \in {6, 7}
                                 THEN {".sldprt"} ELSE {})
       IN  IF sub.ext \notin allowed_exts THEN HTTPException(400)
           ELSE ReturnSuccess(1, 1)
    /\ UNCHANGED <<engine, sub, ref, tol>>

NextSubmit ==
    \/ LookUp
    \/ Order2Branch
    \/ Advanced11Branch
    \/ NoSpecialCase
    \/ ManualBranch
    \/ GenericBranch

SpecSubmit == InitSubmit /\ [][NextSubmit]_vars

-----------------------------------------------------------------------------
(* Properties *)

Returned(op) == pc = op /\ ~out.raised

\* a returned part-mode result of compare_models
PartResult == Returned("compare_models") /\ out.value.mode = "part"

\* a returned assembly-mode result of compare_models
AssemblyResult == Returned("compare_models") /\ out.value.mode = "assembly"

InRange(x) == RLeq(RInt(0), x) /\ RLeq(x, RInt(100))

\* x is c/100 to two decimals
About(x, c) == RLeq(RSub(x, Rat(c, 100)), Rat(1, 200)) /\ RLeq(RSub(Rat(c, 100), x), Rat(1, 200))

\* C1: comparing a part file with itself scores 100 and succeeds, at every
\* tolerance tier, whenever the file is readable and yields invariants
\* (compare_models in part mode, and compare_step_models).
C1_SelfComparison ==
    /\ (pc = "compare_models" /\ sub = ref /\ sub.readable /\ Len(sub.solids) <= 1
            /\ ~get_shape_properties(sub).raised)
        => (~out.raised /\ out.value.mode = "part"
            /\ out.value.global_score = RInt(100) /\ out.value.success)
    /\ (pc = "compare_step_models" /\ sub = ref /\ sub.readable)
        => (~out.raised /\ out.value.feedback.global_score = RInt(100)
            /\ out.value.feedback.success)

C1_Witness ==
    /\ PartResult /\ sub = ref /\ sub.solids = <<>> /\ Len(sub.shells) = 2
    /\ tol = <<1, 20>> /\ out.value.global_score = RInt(100) /\ out.value.success

\* C2: every global_score that is returned lies in [0, 100]: part mode,
\* assembly mode, the shell branch with its x1.1 bonus, and the FreeCAD
\* comparators.
C2_GlobalScoreInRange ==
    /\ (Returned("compare_models") \/ Returned("compare_assemblies"))
        => InRange(out.value.global_score)
    /\ (Returned("compare_step_models") \/ Returned("compare_cad"))
        => InRange(out.value.feedback.global_score)

C2_Witness ==
    /\ PartResult /\ out.value.measure.key = "surface_area"
    /\ sub.solids = <<>> /\ ref.solids = <<>> /\ Len(sub.shells) = 1 /\ Len(ref.shells) = 1
    /\ sub.shells[1].mass # ref.shells[1].mass
    /\ out.value.measure_score = RInt(100)

C3Ref == StepDoc(<<BaseSolid>>, <<>>, <<>>)

C3Sub == StepDoc(<<Body(WideDims, 9950000, Origin, BoxTopo, BaseInertia)>>, <<>>, <<>>)

C3State == pc = "compare_models" /\ sub = C3Sub /\ ref = C3Ref /\ tol = <<1, 1000>>

C3FcRef == FcDoc(10000000, BaseDims, BoxTopo, <<FcSolid(10000000, Origin, BaseInertia)>>)

C3FcSub == FcDoc(9950000, WideDims, BoxTopo, <<FcSolid(9950000, Origin, BaseInertia)>>)

C3FcState == pc = "compare_step_models" /\ sub = C3FcSub /\ ref = C3FcRef /\ tol = <<1, 1000>>

\* everything the scenario expects except the global score
C3Features ==
    /\ C3State =>
        LET s == get_shape_properties(sub).value
            r == get_shape_properties(ref).value
            o == out.value
        IN  /\ ~out.raised
            /\ pct_list(s.dimensions, r.dimensions) = <<Rat(995, 10), RInt(100), RInt(100)>>
            /\ ~ok(s.dimensions[1], r.dimensions[1], tol)
            /\ ok(s.dimensions[2], r.dimensions[2], tol)
            /\ ok(s.dimensions[3], r.dimensions[3], tol)
            /\ ~o.dimensions.ok /\ About(o.dimensions.score, 9983)
            /\ o.measure = [key |-> "volume", ok |-> FALSE, score |-> Rat(995, 10)]
            /\ o.topology = [ok |-> TRUE, score |-> RInt(100)]
            /\ o.principal_moments = [ok |-> TRUE, score |-> RInt(100)]
            /\ o.success
    /\ C3FcState =>
        LET o == out.value.feedback
        IN  /\ ~out.raised
            /\ o.dimensions.pct = <<Rat(995, 10), RInt(100), RInt(100)>>
            /\ ~o.dimensions.ok /\ About(o.dimensions.score, 9983)
            /\ o.volume = [ok |-> FALSE, score |-> Rat(995, 10)]
            /\ o.topology = [ok |-> TRUE, score |-> RInt(100)]
            /\ o.principal_moments = [ok |-> "True", score |-> RInt(100)]
            /\ o.success

\* C3 (as amended): in the concrete scenario the per-feature results are as
\* listed and the global score is 99.8, the mean 99.8333 rounded to one
\* decimal, with success = true.
C3_Scenario ==
    /\ C3Features
    /\ C3State => out.value.global_score = Rat(998, 10)
    /\ C3FcState => out.value.feedback.global_score = Rat(998, 10)

C3_Witness == C3State /\ ~out.raised /\ out.value.success /\ ~out.value.dimensions.ok

\* C3 as stated: the global score of the scenario is about 99.83.
C3_Original ==
    /\ C3Features
    /\ C3State => About(out.value.global_score, 9983)
    /\ C3FcState => About(out.value.feedback.global_score, 9983)

\* the tiers of the claim, written out
TierSuccess(gs, t) ==
    IF RLeq(<<5, 100>>, t) THEN RLeq(RInt(70), gs)
    ELSE IF RLeq(<<1, 100>>, t) THEN RLeq(RInt(75), gs)
    ELSE RLeq(RInt(80), gs)

\* C4: in part mode success is decided by global_score and the tolerance
\* tier alone (>= 70 for tol >= 5e-2, >= 75 for 1e-2 <= tol < 5e-2, >= 80
\* below), for both part comparators.
C4_TieredSuccess ==
    /\ PartResult => (out.value.success <=> TierSuccess(out.value.global_score, tol))
    /\ Returned("compare_step_models")
        => (out.value.feedback.success <=> TierSuccess(out.value.feedback.global_score, tol))

\* C5: in assembly mode success holds exactly when global_score >= 80 and
\* the two solid counts are equal (compare_models and compare_assemblies).
C5_AssemblySuccess ==
    /\ AssemblyResult
        => (out.value.success <=> (RLeq(RInt(80), out.value.global_score)
                                   /\ Len(sub.solids) = Len(ref.solids)))
    /\ Returned("compare_assemblies")
        => (out.value.success <=> (RLeq(RInt(80), out.value.global_score)
                                   /\ Len(sub.Solids) = Len(ref.Solids)))

C5_Witness ==
    /\ AssemblyResult /\ Len(sub.solids) # Len(ref.solids)
    /\ out.value.global_score = RInt(100) /\ ~out.value.success

\* C6: the part-mode global score is the mean of the evaluated features
\* rounded to one decimal, over 3 features (no principal moments) when
\* either part has no solid and over 4 otherwise.
C6_Aggregate ==
    /\ PartResult =>
        LET o == out.value
            n == IF sub.solids = <<>> \/ ref.solids = <<>> THEN 3 ELSE 4
            sum == RAdd(RAdd(o.dimensions.score, o.measure_score),
                        RAdd(o.topology.score,
                             IF n = 4 THEN o.principal_moments.score ELSE RInt(0)))
        IN  o.total = n /\ o.global_score = Round1(RDivInt(sum, n))
    /\ Returned("compare_step_models") =>
        LET o == out.value.feedback
            n == IF sub.Solids = <<>> \/ ref.Solids = <<>> THEN 3 ELSE 4
            sum == RAdd(RAdd(o.dimensions.score, o.volume.score),
                        RAdd(o.topology.score,
                             IF n = 4 THEN o.principal_moments.score ELSE RInt(0)))
        IN  o.total = 100 * n /\ o.global_score = Round1(RDivInt(sum, n))

\* the measure (volume or surface area) of a set of invariants
Measure(p) == IF "volume" \in DOMAIN p THEN p.volume ELSE p.surface_area

\* the comparison with submitted and reference exchanged
Reverse == compare_models(ref, sub, tol)

\* C8 as stated: two different sets of part invariants never get the same
\* global score in the two directions.
C8_Original ==
    (PartResult /\ get_shape_properties(sub).value # get_shape_properties(ref).value)
        => (~Reverse.raised /\ Reverse.value.global_score # out.value.global_score)

\* C8 (as amended): the two directions can give different global scores,
\* and they do so only when the parts differ in a dimension or in the
\* volume/area, or when the moments check passes in one direction only.
C8_Asymmetry ==
    (PartResult /\ ~Reverse.raised /\ Reverse.value.global_score # out.value.global_score)
        => LET a == get_shape_properties(sub).value
               b == get_shape_properties(ref).value
           IN  \/ a.dimensions # b.dimensions
               \/ Measure(a) # Measure(b)
               \/ out.value.principal_moments.ok # Reverse.value.principal_moments.ok

C8_Witness ==
    /\ PartResult /\ ~Reverse.raised
    /\ Reverse.value.global_score # out.value.global_score

\* the comparison reads the properties of a solid on which the kernel raises
ReadsFaultySolid ==
    IF Len(sub.solids) > 1 \/ Len(ref.solids) > 1
    THEN \E i \in 1..Min(Len(sub.solids), Len(ref.solids)) :
            sub.solids[i].fault \/ ref.solids[i].fault
    ELSE \/ (sub.solids # <<>> /\ sub.solids[1].fault)
         \/ (ref.solids # <<>> /\ ref.solids[1].fault)

NoGeometry(d) == d.solids = <<>> /\ d.shells = <<>> /\ d.faces = <<>>

C9_PctMonotone ==
    pc = "pct" =>
        /\ InRange(out.pct[1]) /\ InRange(out.pct[2])
        /\ Abs(sub[1] - ref) <= Abs(sub[2] - ref) => RLeq(out.pct[2], out.pct[1])

C9_Witness ==
    /\ pc = "pct" /\ ref = 0 /\ Abs(sub[1] - ref) < Abs(sub[2] - ref)
    /\ RLt(out.pct[2], out.pct[1]) /\ RLt(RInt(0), out.pct[2])

\* the call has exited, by return or by an exception
Exited == pc.at \in {"returned", "raised"}

\* C11: when a call that opened kernel documents exits, by return or by an
\* exception raised while the file is read or the properties are computed,
\* none of its documents is still open.
C11_DocumentsClosed == Exited => out.open = {}

\* C12: while a comparison is in progress every other submission that has
\* been received can be taken up, and the comparison itself can end (by
\* its result or by a timeout): it neither blocks the others nor hangs.
C12_ComparisonNeverBlocks ==
    \A r \in Requests :
        pc = r => /\ \A q \in Requests : sub[q] = "received" => ENABLED RunComparison(q)
                  /\ ENABLED ComparisonReturns(r)

\* compare_cad was called with mode "auto" and the comparison was performed
AutoCompared ==
    /\ Returned("compare_cad")
    /\ out = compare_cad(ref, sub, "auto", tol)
    /\ "mode" \in DOMAIN out.value.feedback

\* C13: with mode auto the reference's solid count alone decides: the
\* assembly comparison is performed, and mode assembly reported, when the
\* reference has more than one solid, and the part comparison otherwise,
\* whatever the submitted shape contains.
C13_AutoFromReference ==
    AutoCompared =>
        /\ out.value.mode = (IF Len(ref.solids) > 1 THEN "assembly" ELSE "step")
        /\ out.value.feedback.mode = (IF Len(ref.solids) > 1 THEN "assembly" ELSE "part")

\* the drawing is missing or ezdxf cannot parse it
Unusable(d) == ~d.exists \/ ~d.parsable

\* the kernel raises while the entities of the drawing are converted
ConversionRaises(d) == create_occ_geometry(analyze_dxf(d).value.geometries).raised

ReferenceErrors == {"Fichier de reference introuvable", "Erreur de lecture du fichier de reference"}

SubmittedErrors == {"Fichier soumis introuvable", "Erreur de lecture du fichier soumis"}

\* success = false, an error and no score
FailureResult(v) == ~v.success /\ "error" \in DOMAIN v /\ "score" \notin DOMAIN v

\* success = true with the four values of the comparison
ComparisonResult(v) ==
    v.success /\ {"matched_shapes", "total_reference", "total_submitted", "score"} \subseteq DOMAIN v

\* what every result of compare_dxf_drawings on a missing or unparsable
\* drawing looks like: the error names a failing side, the reference first
NamesFailingSide ==
    /\ FailureResult(out.value)
    /\ out.value.error \in ReferenceErrors \cup SubmittedErrors
    /\ out.value.error \in ReferenceErrors => Unusable(ref)
    /\ out.value.error \in SubmittedErrors => Unusable(sub)
    /\ ~ref.exists => out.value.error = "Fichier de reference introuvable"
    /\ (ref.exists /\ sub.exists /\ ~ref.parsable)
          => out.value.error = "Erreur de lecture du fichier de reference"

\* C14 as stated: every input other than a missing or unparsable drawing
\* gives success = true.
C14_Original ==
    pc = "compare_dxf_drawings" =>
        /\ ~out.raised
        /\ IF Unusable(ref) \/ Unusable(sub) THEN NamesFailingSide
           ELSE ComparisonResult(out.value)

\* C14 (as amended): compare_dxf_drawings never raises; a missing or
\* unparsable drawing gives success = false with an error naming a failing
\* side (the reference first) and no score; a kernel error while the
\* entities are converted gives success = false with the exception text and
\* no score; every other input gives success = true with matched_shapes,
\* total_reference, total_submitted and score.
C14_NeverRaises ==
    pc = "compare_dxf_drawings" =>
        /\ ~out.raised
        /\ IF Unusable(ref) \/ Unusable(sub) THEN NamesFailingSide
           ELSE IF ConversionRaises(ref) \/ ConversionRaises(sub)
           THEN FailureResult(out.value)
                /\ out.value.error \notin ReferenceErrors \cup SubmittedErrors
           ELSE ComparisonResult(out.value)

C14_Witness ==
    /\ Returned("compare_dxf_drawings")
    /\ ~Unusable(ref) /\ ~Unusable(sub)
    /\ ~ConversionRaises(ref) /\ ConversionRaises(sub)
    /\ FailureResult(out.value)

\* 100 - min(100, 100 * |s - r| / max(|r|, 1e-6)) on values in 1e-3 units,
\* where 1e-6 is a thousandth of a unit
PctOverMax(s, r) ==
    RSub(RInt(100),
         RMin(RInt(100),
              IF Abs(r) > 0 THEN Rat(100 * Abs(s - r), Abs(r))
              ELSE RInt(100 * Abs(s - r) * 1000)))

\* C15: the percentage is 100 - min(100, 100 * |s - r| / max(|r|, 1e-6))
\* for every s and r, a reference value of 0 included.
C15_PctFormula ==
    pc = "pct" => /\ out.pct[1] = PctOverMax(sub[1], ref)
                  /\ out.pct[2] = PctOverMax(sub[2], ref)

\* both files are read in part mode and both yield properties
PartInputs ==
    /\ sub.readable /\ ref.readable
    /\ Len(sub.solids) <= 1 /\ Len(ref.solids) <= 1
    /\ ~get_shape_properties(sub).raised /\ ~get_shape_properties(ref).raised

\* C16: in part mode two solids are compared on volume under tol; when
\* either part is a shell or surface (one solid against one shell included)
\* the surface areas are compared under 1.5 * tol; a scored feature result
\* is produced in every combination.
C16_MeasureFeature ==
    (pc = "compare_models" /\ PartInputs) =>
        /\ ~out.raised
        /\ IF sub.solids # <<>> /\ ref.solids # <<>>
           THEN /\ out.value.measure.key = "volume"
                /\ out.value.measure.ok
                     = ok(get_shape_properties(sub).value.volume,
                          get_shape_properties(ref).value.volume, tol)
           ELSE /\ out.value.measure.key = "surface_area"
                /\ (sub.solids = <<>> /\ ref.solids = <<>>)
                     => out.value.measure.ok
                          = ok(get_shape_properties(sub).value.surface_area,
                               get_shape_properties(ref).value.surface_area,
                               RMul(tol, <<3, 2>>))
        /\ InRange(out.value.measure.score)

\* the moments get_shape_properties gives a compound of several shells:
\* three times the total area (src/services/occComparison.py:194-198)
ShellPlaceholder(p) ==
    /\ "surface_area" \in DOMAIN p
    /\ p.principal_moments = <<p.surface_area, p.surface_area, p.surface_area>>

\* the moments get_step_properties gives a shape without usable solid
FcPlaceholder(pm) == pm = <<>> \/ pm = <<0, 0, 0>>

\* C17: in part mode the principal-moments feature is left out of the sum
\* and of the denominator when either side's moments are the shell
\* placeholder; otherwise it scores exactly 100 when all three moments are
\* within tol of the reference and exactly 0 when one is not.
C17_MomentsFeature ==
    /\ PartResult =>
        LET a == get_shape_properties(sub).value
            b == get_shape_properties(ref).value
            o == out.value
        IN  IF ShellPlaceholder(a) \/ ShellPlaceholder(b)
            THEN /\ o.total = 3
                 /\ o.score = RAdd(RAdd(o.dimensions.score, o.measure_score), o.topology.score)
            ELSE /\ o.total = 4
                 /\ o.principal_moments.score
                      = RInt(IF all_ok(a.principal_moments, b.principal_moments, tol)
                             THEN 100 ELSE 0)
    /\ Returned("compare_step_models") =>
        LET o == out.value.feedback
            pm_sub == out.value.submitted.principal_moments
            pm_ref == out.value.reference.principal_moments
        IN  IF FcPlaceholder(pm_sub) \/ FcPlaceholder(pm_ref)
            THEN o.principal_moments.ok = "None" /\ o.total = 300
            ELSE /\ o.total = 400
                 /\ o.principal_moments.score
                      = RInt(IF all_ok(pm_sub, pm_ref, tol) THEN 100 ELSE 0)

\* a returned part-mode result whose measure is the surface area
AreaResult == PartResult /\ out.value.measure.key = "surface_area"

\* |dFaces| + |dEdges| + |dVertices| of the two inputs
TopologyDistance ==
    LET a == get_shape_properties(sub).value.topology
        b == get_shape_properties(ref).value.topology
    IN  Abs(a.faces - b.faces) + Abs(a.edges - b.edges) + Abs(a.vertices - b.vertices)

\* the area score with the bonus: x1.1 capped at 100 iff the topology
\* distance is at most 6
AreaScoreWithBonus ==
    LET raw == pct(get_shape_properties(sub).value.surface_area,
                   get_shape_properties(ref).value.surface_area)
    IN  IF TopologyDistance <= 6 THEN RMin(RInt(100), RMul(raw, <<11, 10>>)) ELSE raw

\* the sum of the four feature scores uses v for the measure
SumUses(v) ==
    out.value.score = RAdd(RAdd(out.value.dimensions.score, v),
                           RAdd(out.value.topology.score, out.value.principal_moments.score))

\* C18 as stated: the area score gets the x1.1 bonus, capped at 100, iff
\* |dFaces| + |dEdges| + |dVertices| <= 6, and the value added to the
\* global-score sum is the value reported as the feature's score.
C18_Original ==
    AreaResult => /\ out.value.measure.score = AreaScoreWithBonus
                  /\ SumUses(out.value.measure.score)

\* C18, amended: the area score gets the x1.1 bonus, capped at 100, iff
\* |dFaces| + |dEdges| + |dVertices| <= 6; that value is added to the
\* global-score sum, and the feature reports it rounded to one decimal.
C18_AreaBonus ==
    AreaResult => /\ SumUses(AreaScoreWithBonus)
                  /\ out.value.measure.score = Round1(AreaScoreWithBonus)

\* a shell comparison with the bonus applied below the cap, where the
\* reported score differs from the summed one
C18_Witness ==
    /\ AreaResult
    /\ TopologyDistance <= 6
    /\ RLeq(AreaScoreWithBonus, RInt(99))
    /\ out.value.measure.score # AreaScoreWithBonus

\* the solids of the two inputs, in enumeration order
SubSolids == get_solids_from_shape(sub)

RefSolids == get_solids_from_shape(ref)

PairCount == Min(Len(SubSolids), Len(RefSolids))

\* the first n elements of s
Prefix(s, n) == [k \in 1..n |-> s[k]]

\* s and t hold the same solids, in a different order
Permuted(s, t) ==
    /\ Len(s) = Len(t)
    /\ s # t
    /\ \E f \in [1..Len(s) -> 1..Len(s)] :
          /\ \A i, j \in 1..Len(s) : i # j => f[i] # f[j]
          /\ \A i \in 1..Len(s) : t[i] = s[f[i]]

\* C19: in assembly mode the match list has min(countSub, countRef)
\* records; the i-th record has index i (counted from 0) and compares the
\* i-th submitted solid with the i-th reference solid; the solids beyond
\* the shorter list give no record and leave the global score as it is
\* without them.
C19_PositionalPairing ==
    AssemblyResult =>
        LET m == out.value.components_match
        IN  /\ Len(m) = PairCount
            /\ \A k \in 1..Len(m) :
                  LET a == get_solid_properties(SubSolids[k]).value
                      b == get_solid_properties(RefSolids[k]).value
                  IN  /\ m[k].index = k - 1
                      /\ m[k].volume_ok = ok(a.volume, b.volume, tol)
                      /\ m[k].volume_score = Round1(pct(a.volume, b.volume))
                      /\ m[k].center_of_mass_sub = a.center_of_mass
                      /\ m[k].center_of_mass_ref = b.center_of_mass
                      /\ m[k].center_of_mass_ok = all_ok(a.center_of_mass, b.center_of_mass, tol)
                      /\ m[k].topology_match = (a.topology = b.topology)
            /\ out.value.global_score
                 = compare_assembly(Prefix(SubSolids, PairCount),
                                    Prefix(RefSolids, PairCount), tol).value.global_score

\* the submitted assembly is the reference with its solids in another
\* order, and scores below 100
C19_Witness ==
    /\ AssemblyResult
    /\ Permuted(RefSolids, SubSolids)
    /\ Len(out.value.components_match) = Len(RefSolids)
    /\ out.value.global_score # RInt(100)

\* the number of the first n pairs that pass the volume check, the
\* centre-of-mass check and the topology equality
PairsPassing(n, vol, com, topo_a, topo_b) ==
    Cardinality({k \in 1..n : vol[k] /\ com[k] /\ topo_a[k] = topo_b[k]})

\* C20: in assembly mode nOk counts the pairs whose volume check,
\* centre-of-mass check and topology equality all pass, and global_score
\* is round(100 * nOk / max(pairCount, 1), 1); with no pair global_score is
\* 0 and success is false (compare_models and compare_assemblies).
C20_AssemblyScore ==
    /\ AssemblyResult =>
        LET m == out.value.components_match
            nOk == PairsPassing(Len(m),
                                [k \in 1..Len(m) |-> m[k].volume_ok],
                                [k \in 1..Len(m) |-> m[k].center_of_mass_ok],
                                [k \in 1..Len(m) |-> SubSolids[k].topo],
                                [k \in 1..Len(m) |-> RefSolids[k].topo])
        IN  /\ out.value.global_score = Round1(Rat(100 * nOk, Max(Len(m), 1)))
            /\ Len(m) = 0 => (out.value.global_score = RInt(0) /\ ~out.value.success)
    /\ Returned("compare_assemblies") =>
        LET m == out.value.components_match
            nOk == PairsPassing(Len(m),
                                [k \in 1..Len(m) |-> m[k].volume_ok],
                                [k \in 1..Len(m) |-> m[k].center_of_mass_ok],
                                [k \in 1..Len(m) |-> sub.Solids[k].topo],
                                [k \in 1..Len(m) |-> ref.Solids[k].topo])
        IN  /\ out.value.global_score = Round1(Rat(100 * nOk, Max(Len(m), 1)))
            /\ Len(m) = 0 => (out.value.global_score = RInt(0) /\ ~out.value.success)

\* the record out.value holds exactly the measure key k with the value m
\* rounded to 3 decimals
Measures(k, m) ==
    /\ ~out.raised
    /\ {"volume", "surface_area"} \cap DOMAIN out.value = {k}
    /\ out.value[k] = Round3(m)

\* the extraction used body b: its centre of mass, dimensions and topology
\* are the record's
ExtractedFrom(b) ==
    /\ out.value.center_of_mass = Round3Tuple(b.com)
    /\ out.value.dimensions = Round3Tuple(b.dims)
    /\ out.value.topology = b.topo

\* C21: extraction takes the first branch that applies: the first solid
\* when there is one (shells and faces ignored), else the single shell or
\* the aggregate of several shells, else the first face; a shape with none
\* of them fails with the no-geometry error.
C21_FallbackChain ==
    (pc = "get_shape_properties" /\ (out.raised => out.error # "kernel error")) =>
        IF sub.solids # <<>>
        THEN Measures("volume", sub.solids[1].mass) /\ ExtractedFrom(sub.solids[1])
        ELSE IF Len(sub.shells) = 1
        THEN Measures("surface_area", sub.shells[1].mass) /\ ExtractedFrom(sub.shells[1])
        ELSE IF Len(sub.shells) > 1
        THEN /\ Measures("surface_area", SumSeq([i \in 1..Len(sub.shells) |-> sub.shells[i].mass]))
             /\ out.value.type = "shell"
             /\ out.value.topology.faces
                  = SumSeq([i \in 1..Len(sub.shells) |-> sub.shells[i].topo.faces])
        ELSE IF sub.faces # <<>>
        THEN Measures("surface_area", sub.faces[1].mass) /\ ExtractedFrom(sub.faces[1])
        ELSE /\ out.raised
             /\ out.error = "No valid geometry (solid, shell, or face) found in shape."

\* a shape with a solid, a shell and a face gave the record of the solid
C21_Witness ==
    /\ pc = "get_shape_properties"
    /\ sub.solids # <<>> /\ sub.shells # <<>> /\ sub.faces # <<>>
    /\ Measures("volume", sub.solids[1].mass)

\* the measure keys a returned record defines
MeasureKeys == {"volume", "surface_area"} \cap DOMAIN out.value

\* C22: every invariants record defines exactly one of volume and surface
\* area: the volume when it comes from a solid, the surface area when it
\* comes from a shell, several shells or a face (get_shape_properties and
\* get_step_properties).
C22_OneMeasure ==
    /\ Returned("get_shape_properties")
        => MeasureKeys = (IF sub.solids # <<>> THEN {"volume"} ELSE {"surface_area"})
    /\ Returned("get_step_properties")
        => MeasureKeys = (IF sub.Solids # <<>> THEN {"volume"} ELSE {"surface_area"})

\* compare_dxf_drawings returned the result of a comparison
DrawingsCompared ==
    pc = "compare_dxf_drawings" /\ ~out.raised /\ ComparisonResult(out.value)

\* the shapes built from the reference and from the submitted drawing
RefShapes == create_occ_geometry(analyze_dxf(ref).value.geometries).value

SubShapes == create_occ_geometry(analyze_dxf(sub).value.geometries).value

\* min X, min Y, max X and max Y of the two boxes are within tol
BoxesWithin(a, b) == \A c \in 1..4 : Abs(a.bbox[c] - b.bbox[c]) <= tol

\* the reference shapes that have a submitted shape at the same box
BoxMatched == {i \in 1..Len(RefShapes) : \E j \in 1..Len(SubShapes) :
                  BoxesWithin(RefShapes[i], SubShapes[j])}

\* the reference shapes that have a submitted shape at the same box and
\* with as many edges
BoxAndEdgesMatched ==
    {i \in 1..Len(RefShapes) : \E j \in 1..Len(SubShapes) :
        /\ BoxesWithin(RefShapes[i], SubShapes[j])
        /\ RefShapes[i].edges = SubShapes[j].edges}

\* C23 as stated: a reference shape matches a submitted shape exactly when
\* the four corner coordinates of their bounding boxes are within tol;
\* nothing else decides the match.
C23_Original == DrawingsCompared => out.value.matched_shapes = Cardinality(BoxMatched)

\* C23, amended: a reference shape matches a submitted shape exactly when
\* the four corner coordinates of their bounding boxes are within tol and
\* the two shapes have the same number of edges.
C23_BoxAndEdges ==
    DrawingsCompared => out.value.matched_shapes = Cardinality(BoxAndEdgesMatched)

\* a reference shape has a submitted shape at its box, with another number
\* of edges, and is not matched
C23_Witness ==
    /\ DrawingsCompared
    /\ BoxMatched # {}
    /\ out.value.matched_shapes < Cardinality(BoxMatched)

\* the reference shapes for which compare_geometry accepts a submitted shape
MatchedReferences ==
    {i \in 1..Len(RefShapes) : \E j \in 1..Len(SubShapes) :
        compare_geometry(RefShapes[i], SubShapes[j], tol)}

\* C24: matched_shapes is the number of reference shapes with at least one
\* matching submitted shape, each counted once and no submitted shape used
\* up, so it lies in 0..total_reference; the score is
\* round(100 * matched_shapes / max(total_reference, 1), 2), whatever
\* total_submitted and the entity counts are.
C24_DrawingScore ==
    DrawingsCompared =>
        /\ out.value.total_reference = Len(RefShapes)
        /\ out.value.total_submitted = Len(SubShapes)
        /\ out.value.matched_shapes = Cardinality(MatchedReferences)
        /\ out.value.matched_shapes \in 0..out.value.total_reference
        /\ out.value.score
             = Round2(Rat(100 * out.value.matched_shapes, Max(out.value.total_reference, 1)))

\* one submitted shape matched two reference shapes, and the entity counts
\* of the two drawings differ
C24_Witness ==
    /\ DrawingsCompared
    /\ out.value.matched_shapes > out.value.total_submitted
    /\ out.value.score = RInt(100)
    /\ \E ty \in CountedTypes : ~out.value.entity_counts.matches[ty]

\* C25: over any sequence of automatic submissions and manual validations
\* the score stored for an exercise never decreases: once the requests
\* have returned, the exercise has a stored score and none lies below the
\* highest score an earlier request left stored.
C25_ScoreNeverDecreases ==
    Quiescent =>
        \A e \in Exercises :
            out.high[e] > 0 => /\ StoredScores(e) # {}
                               /\ \A v \in StoredScores(e) : v >= out.high[e]

\* the last request to return was a submission scored 90 or more
SubmissionProcessed ==
    Quiescent /\ out.last.at \in {"dxf_set_progress", "gen_set_progress"}

\* C26: when a submission with total score >= 90 has been processed, the
\* progress entry of the course level counts the exercises of the course
\* that are in completedExercises, the one just completed included, out of
\* all the exercises of the course.
C26_ProgressCounts ==
    SubmissionProcessed =>
        /\ out.last.ex \in sub.completedExercises
        /\ sub.progress = [completed |-> Cardinality(Exercises \cap sub.completedExercises),
                           total |-> Cardinality(Exercises)]

\* C27: after any interleaving of concurrent submissions and manual
\* validations the scores list has at most one entry per exercise, and that
\* entry is the maximum of the scores recorded for the exercise.
C27_OneBestEntry ==
    Quiescent =>
        \A e \in Exercises :
            /\ Cardinality({i \in 1..Len(sub.scores) : sub.scores[i].exercise_id = e}) <= 1
            /\ out.recorded[e] # {} => StoredScores(e) = {Greatest(out.recorded[e])}

\* C28: through send-code, verify-code, register and admin-register every
\* user document with is_verified = true has a password set.
C28_VerifiedHasPassword ==
    engine = "auth" => \A i \in 1..Len(sub) : sub[i].is_verified => sub[i].password

\* C29: get_current_user never accepts a token issued by
\* create_refresh_token, and verify_refresh_token never accepts a token
\* issued by create_access_token.
C29_TokenTypesApart ==
    /\ (pc = "get_current_user" /\ out.token.type = "refresh") => ~out.accepted
    /\ (pc = "refresh_token" /\ out.token.type = "access") => ~out.accepted

\* C30: a request of submit_exercise whose file passed the extension check
\* of its branch and was written to disk ends with exactly one submission
\* record inserted; none is rejected by a later extension check.
C30_WrittenThenRecorded ==
    (pc = "ended" /\ out.written > 0) => (out.status = 200 /\ out.inserted = 1)

=============================================================================
